---- MODULE Spec2Model ----
(***************************************************************************)
(* viessmann2mqtt: the feature-to-component mapping engine.                *)
(*                                                                         *)
(* HomeAssistantDiscovery.generateDeviceDiscoveryConfig is modelled as a   *)
(* state machine whose steps are the passes of the pipeline, run twice on  *)
(* the same device and feature list.  normalizeUnit is modelled as a pure  *)
(* operator applied by its own action to inputs drawn from a bounded set.  *)
(* JavaScript strings are TLA+ strings; substring tests, regular           *)
(* expression replacements and template rendering are computed character   *)
(* by character, as the code computes them.                                *)
(***************************************************************************)
EXTENDS Integers, Sequences, FiniteSets, TLC

VARIABLES
    pc,                 \* position in generateDeviceDiscoveryConfig / in the unit machine
    variant,            \* class of the device instance
    features,           \* the feature list passed to synthesis (ApiFeature[])
    components,         \* the accumulating `components` record (ordered)
    decoratedFeaturePaths, \* the Set<string> of claimed feature paths (insertion order)
    passOut,            \* what the pass that ran last returned (ordered record)
    run,                \* 1 or 2: which call of synthesis is running
    doc1,               \* components of the document returned by the first call
    doc2,               \* components of the document returned by the second call
    dataPointsCache,    \* module-level cache of homeassistant-utils (null or loaded)
    unitIn,             \* normalizeUnit: argument unit
    classIn,            \* normalizeUnit: argument deviceClass
    unitOut,            \* normalizeUnit: result
    modelId,            \* createDevice: deviceModel.modelId
    roles,              \* createDevice: argument roles
    device,             \* createDevice: class of the instance it returned
    valueName,          \* getProperty: argument propertyName
    valuePath,          \* getPropertyValue: argument propertyPath
    valueOut,           \* getPropertyValue: result
    modeEnum,           \* mode wiring: constraints.enum of the mode parameter of setMode
    wired,              \* mode wiring: the climate component after the wiring
    apiData,            \* poll loop: the features the vendor API holds, per device
    settled,            \* poll loop: the API and the broker fail no more, the data rests
    cur,                \* poll loop: index of the device of the running fetchAndPublish
    changedData,        \* poll loop: enabledFeatures, the changed data points of the call
    sendAt,             \* poll loop: index of the next data point to publish
    previousMap,        \* poll loop: topic -> data recorded as published
    delivered,          \* broker: topic -> data of the last publish it accepted
    messageTopic,       \* command subscriber: topic of the received message
    payloadText,        \* command subscriber: payload of the received message
    fresh,              \* command subscriber: the features api.getFeatures answers
    executed,           \* vendor API: the executeCommand calls it received
    token,              \* ViessmannApi.token: index of the cached promise, 0 for null
    promises,           \* the token promises created so far, in order of creation
    callers             \* the calls of ensureToken: position and promise in hand

\* the variables of discovery synthesis and of the unit, factory and store machines
discoveryVars == <<variant, features, components, decoratedFeaturePaths, passOut,
                   run, doc1, doc2, dataPointsCache, unitIn, classIn, unitOut,
                   modelId, roles, device, valueName, valuePath, valueOut>>

\* the variables of the mode wiring, of the poll loop, of the command
\* subscriber and of the token cache
pollVars == <<apiData, settled, cur, changedData, sendAt, previousMap, delivered>>

modeVars == <<modeEnum, wired>>

commandVars == <<messageTopic, payloadText, fresh, executed>>

tokenVars == <<token, promises, callers>>

serviceVars == <<modeVars, pollVars, commandVars, tokenVars>>

vars == <<pc, discoveryVars, serviceVars>>

(***************************************************************************)
(* JavaScript values                                                       *)
(***************************************************************************)
\* undefined, for a string-valued slot
Undef == "<undefined>"
\* null, for a string-valued slot
Null == "<null>"

UndefV == [t |-> "undefined"]
NullV == [t |-> "null"]
NumV(n) == [t |-> "number", n |-> n]
StrV(s) == [t |-> "string", s |-> s]
BoolV(b) == [t |-> "boolean", b |-> b]
ArrV(a) == [t |-> "array", a |-> a]
\* a plain object with k own keys
ObjV(k) == [t |-> "object", k |-> k]

(***************************************************************************)
(* String helpers (methods of String.prototype)                            *)
(***************************************************************************)
CharAt(s, i) == SubSeq(s, i, i)

\* s.includes(sub)
includes(s, sub) ==
    \E i \in 1..(Len(s) - Len(sub) + 1) : SubSeq(s, i, i + Len(sub) - 1) = sub

\* s.startsWith(sub)
startsWith(s, sub) == Len(sub) <= Len(s) /\ SubSeq(s, 1, Len(sub)) = sub

\* s.endsWith(sub)
endsWith(s, sub) ==
    Len(sub) <= Len(s) /\ SubSeq(s, Len(s) - Len(sub) + 1, Len(s)) = sub

\* s.indexOf(sub), 1-based; 0 when absent
indexOf(s, sub) ==
    IF includes(s, sub)
    THEN CHOOSE i \in 1..(Len(s) - Len(sub) + 1) :
            /\ SubSeq(s, i, i + Len(sub) - 1) = sub
            /\ \A j \in 1..(i - 1) : SubSeq(s, j, j + Len(sub) - 1) # sub
    ELSE 0

UpperChars == "ABCDEFGHIJKLMNOPQRSTUVWXYZ"
LowerChars == "abcdefghijklmnopqrstuvwxyz"
DigitChars == "0123456789"

IsUpper(c) == \E i \in 1..26 : CharAt(UpperChars, i) = c
IsLower(c) == \E i \in 1..26 : CharAt(LowerChars, i) = c
IsDigit(c) == \E i \in 1..10 : CharAt(DigitChars, i) = c
\* \w of a regular expression
IsWordChar(c) == IsUpper(c) \/ IsLower(c) \/ IsDigit(c) \/ c = "_"

LowerOfChar(c) ==
    IF IsUpper(c)
    THEN CharAt(LowerChars, CHOOSE i \in 1..26 : CharAt(UpperChars, i) = c)
    ELSE c

UpperOfChar(c) ==
    IF IsLower(c)
    THEN CharAt(UpperChars, CHOOSE i \in 1..26 : CharAt(LowerChars, i) = c)
    ELSE c

RECURSIVE toLowerCase(_)
toLowerCase(s) ==
    IF s = "" THEN ""
    ELSE LowerOfChar(CharAt(s, 1)) \o toLowerCase(SubSeq(s, 2, Len(s)))

\* s.replace(/\./g, r) and the like: every occurrence of the character c
RECURSIVE replaceAllChar(_, _, _)
replaceAllChar(s, c, r) ==
    IF s = "" THEN ""
    ELSE (IF CharAt(s, 1) = c THEN r ELSE CharAt(s, 1))
            \o replaceAllChar(SubSeq(s, 2, Len(s)), c, r)

\* s.replace(sub, r): the first occurrence only
replaceFirst(s, sub, r) ==
    LET i == indexOf(s, sub)
    IN  IF i = 0 THEN s
        ELSE SubSeq(s, 1, i - 1) \o r \o SubSeq(s, i + Len(sub), Len(s))

\* s.replace(/sub/g, r) for a literal sub
RECURSIVE replaceAll(_, _, _)
replaceAll(s, sub, r) ==
    LET i == indexOf(s, sub)
    IN  IF i = 0 THEN s
        ELSE SubSeq(s, 1, i - 1) \o r
                \o replaceAll(SubSeq(s, i + Len(sub), Len(s)), sub, r)

\* s.trim()
RECURSIVE trimStart(_)
trimStart(s) ==
    IF s # "" /\ CharAt(s, 1) = " " THEN trimStart(SubSeq(s, 2, Len(s))) ELSE s

RECURSIVE trimEnd(_)
trimEnd(s) ==
    IF s # "" /\ CharAt(s, Len(s)) = " " THEN trimEnd(SubSeq(s, 1, Len(s) - 1)) ELSE s

trim(s) == trimEnd(trimStart(s))

\* s.split(c) for a one-character separator
RECURSIVE split(_, _)
split(s, c) ==
    LET i == indexOf(s, c)
    IN  IF i = 0 THEN <<s>>
        ELSE <<SubSeq(s, 1, i - 1)>> \o split(SubSeq(s, i + 1, Len(s)), c)

\* /^\d+$/.test(s)
RECURSIVE allDigits(_)
allDigits(s) ==
    IF s = "" THEN TRUE
    ELSE IsDigit(CharAt(s, 1)) /\ allDigits(SubSeq(s, 2, Len(s)))

isNumeric(s) == s # "" /\ allDigits(s)

\* xs.includes(x) for an array
inArray(xs, x) == \E i \in 1..Len(xs) : xs[i] = x

(***************************************************************************)
(* homeassistant-utils: normalizeUnit                                      *)
(***************************************************************************)
UNIT_MAP ==
    [ u \in { "kilowatthour", "kilowatthour/year", "cubicmeter", "m³", "liter",
              "bar", "celsius", "fahrenheit", "kelvin", "hour", "minute",
              "second", "watt", "kilowatt", "megawatt", "liter/hour", "meter",
              "degree", "percent", "kilowatthourpercubicmeter" } |->
        CASE u = "kilowatthour" -> "kWh"
          [] u = "kilowatthour/year" -> "kWh"
          [] u = "cubicmeter" -> "m³"
          [] u = "m³" -> "m³"
          [] u = "liter" -> "L"
          [] u = "bar" -> "bar"
          [] u = "celsius" -> "°C"
          [] u = "fahrenheit" -> "°F"
          [] u = "kelvin" -> "K"
          [] u = "hour" -> "h"
          [] u = "minute" -> "min"
          [] u = "second" -> "s"
          [] u = "watt" -> "W"
          [] u = "kilowatt" -> "kW"
          [] u = "megawatt" -> "MW"
          [] u = "liter/hour" -> "L/h"
          [] u = "meter" -> "m"
          [] u = "degree" -> "°"
          [] u = "percent" -> "%"
          [] u = "kilowatthourpercubicmeter" -> "kWh/m³" ]

\* UNIT_MAP[key] with undefined for a missing key
UnitMapGet(key) == IF key \in DOMAIN UNIT_MAP THEN UNIT_MAP[key] ELSE Undef

normalizeUnit(unit, deviceClass) ==
    IF unit = Undef \/ unit = Null \/ unit = "" THEN Undef
    ELSE LET unitLower == toLowerCase(unit)
             normalized == UnitMapGet(unitLower)
         IN  IF deviceClass = "energy"
             THEN IF normalized # Undef
                     /\ (endsWith(normalized, "Wh") \/ endsWith(normalized, "h"))
                  THEN normalized ELSE Undef
             ELSE IF deviceClass = "pressure"
             THEN IF normalized # Undef
                     /\ (normalized = "bar" \/ endsWith(normalized, "bar")
                         \/ endsWith(normalized, "Pa") \/ endsWith(normalized, "Hg")
                         \/ normalized = "psi")
                  THEN normalized ELSE Undef
             ELSE IF normalized # Undef THEN normalized ELSE unit

\* the energy units Home Assistant accepts for device_class energy
validEnergyUnits ==
    <<"Wh", "kWh", "MWh", "GWh", "J", "kJ", "MJ", "GJ", "cal", "kcal", "Mcal", "Gcal", "BTU">>

\* the pressure units Home Assistant accepts for device_class pressure
validPressureUnits ==
    <<"Pa", "kPa", "hPa", "bar", "cbar", "mbar", "mmHg", "inHg", "psi", "inHO", "dbar">>

(***************************************************************************)
(* Data: properties, commands, features, components                        *)
(***************************************************************************)
\* one entry of feature.properties: { type, value, unit }; unit = Undef: no unit key
Prop(key, type, value, unit) == [key |-> key, type |-> type, value |-> value, unit |-> unit]

\* one entry of command.params; enum = <<Undef>>: no constraints.enum
Param(name, type, required, min, max, stepping, enum) ==
    [name |-> name, type |-> type, required |-> required,
     min |-> min, max |-> max, stepping |-> stepping, enum |-> enum]

Cmd(name, isExecutable, params) ==
    [name |-> name, isExecutable |-> isExecutable, params |-> params]

Feature(path, isEnabled, properties, commands) ==
    [feature |-> path, isEnabled |-> isEnabled,
     properties |-> properties, commands |-> commands]

\* a missing array-valued field
NoList == <<Undef>>

\* an entry of command.params whose definition is null: params = { name: null }
NullParam(name) == Param(name, Null, FALSE, UndefV, UndefV, UndefV, NoList)

\* paramDef === null
isNullParam(param) == param.type = Null

\* "key" in properties
hasProp(properties, key) == \E i \in 1..Len(properties) : properties[i].key = key

\* properties[key], when present
getProp(properties, key) ==
    properties[CHOOSE i \in 1..Len(properties) : properties[i].key = key]

\* "value" in prop
hasValue(prop) == prop.value.t # "undefined"

\* a plain object with its own keys and their values, in insertion order
ObjT(entries) == [t |-> "object", k |-> Len(entries), entries |-> entries]

\* key in object, for an object with entries
hasEntry(object, key) ==
    \E i \in 1..Len(object.entries) : object.entries[i].key = key

\* object[key], when present
getEntry(object, key) ==
    object.entries[CHOOSE i \in 1..Len(object.entries) : object.entries[i].key = key].v

\* properties[key] as the object the API sent: { type, value, unit } without
\* the keys that are not there
propNode(prop) ==
    ObjT((IF prop.type # Undef THEN << [key |-> "type", v |-> StrV(prop.type)] >> ELSE <<>>)
         \o (IF hasValue(prop) THEN << [key |-> "value", v |-> prop.value] >> ELSE <<>>)
         \o (IF prop.unit # Undef THEN << [key |-> "unit", v |-> StrV(prop.unit)] >> ELSE <<>>))

\* feature.properties as an object
propertiesNode(properties) ==
    ObjT([i \in 1..Len(properties) |->
            [key |-> properties[i].key, v |-> propNode(properties[i])]])

\* current[part] of an object or an array; UndefV when there is no such key
\* (keys inherited from Object.prototype and Array.prototype other than length
\* are not modelled: no property path of the program names one)
member(current, part) ==
    IF current.t = "object"
    THEN IF hasEntry(current, part) THEN getEntry(current, part) ELSE UndefV
    ELSE IF part = "length" THEN NumV(Len(current.a))
    ELSE IF \E n \in 0..(Len(current.a) - 1) : ToString(n) = part
    THEN current.a[(CHOOSE n \in 0..(Len(current.a) - 1) : ToString(n) = part) + 1]
    ELSE UndefV

\* a component config; every field the pipeline can set, undefined at first
NewComponent ==
    [ platform |-> Undef, unique_id |-> Undef, state_topic |-> Undef,
      value_template |-> Undef, device_class |-> Undef,
      unit_of_measurement |-> Undef, entity_category |-> Undef, ent_cat |-> Undef,
      enabled_by_default |-> UndefV, en |-> UndefV, state_class |-> Undef,
      command_topic |-> Undef, command_template |-> Undef,
      min |-> UndefV, max |-> UndefV, step |-> UndefV, mode |-> Undef,
      options |-> NoList, payload_press |-> Undef,
      payload_on |-> Undef, payload_off |-> Undef,
      json_attributes_topic |-> Undef, json_attributes_template |-> Undef,
      modes |-> NoList, mode_state_topic |-> Undef, mode_state_template |-> Undef,
      mode_command_topic |-> Undef, mode_command_template |-> Undef,
      temperature_command_topic |-> Undef, temperature_command_template |-> Undef,
      temperature_state_topic |-> Undef, temperature_state_template |-> Undef,
      current_temperature_topic |-> Undef, current_temperature_template |-> Undef,
      min_temp |-> UndefV, max_temp |-> UndefV, temp_step |-> UndefV,
      temperature_unit |-> Undef ]

\* a Record<string, component> with its key order: a sequence of [key, c]
hasKey(cs, key) == \E i \in 1..Len(cs) : cs[i].key = key

getKey(cs, key) == cs[CHOOSE i \in 1..Len(cs) : cs[i].key = key].c

\* cs[key] = c: an existing key keeps its place
putKey(cs, key, c) ==
    IF hasKey(cs, key)
    THEN [i \in 1..Len(cs) |-> IF cs[i].key = key THEN [key |-> key, c |-> c] ELSE cs[i]]
    ELSE Append(cs, [key |-> key, c |-> c])

\* Object.assign(cs, other)
RECURSIVE ObjectAssign(_, _)
ObjectAssign(cs, other) ==
    IF other = <<>> THEN cs
    ELSE ObjectAssign(putKey(cs, Head(other).key, Head(other).c), Tail(other))

\* set.add(x) on a Set kept in insertion order
setAdd(set, x) == IF inArray(set, x) THEN set ELSE Append(set, x)

(***************************************************************************)
(* The HomeAssistantDiscovery instance                                     *)
(***************************************************************************)
baseTopic == "viessmann"
installationId == "1"
gatewayId == "gw"
deviceId == "0"

\* a faulty unique id that leaves the component key out: every component of
\* one device would share it
uniqueIdOfDevice(componentKey) ==
    "viessmann_" \o installationId \o "_" \o gatewayId \o "_" \o deviceId

\* viessmann_${installationId}_${gatewayId}_${deviceId}_${componentKey}
uniqueId(componentKey) ==
    "viessmann_" \o installationId \o "_" \o gatewayId \o "_" \o deviceId
        \o "_" \o componentKey

\* ${baseTopic}/installations/.../devices/${deviceId}/features/${featurePath}
stateTopic(featurePath) ==
    baseTopic \o "/installations/" \o installationId \o "/gateways/" \o gatewayId
        \o "/devices/" \o deviceId \o "/features/" \o featurePath

generateCommandTopic(featurePath, commandName) ==
    stateTopic(featurePath) \o "/commands/" \o commandName \o "/set"

\* stateTopic.match(/\/features\/(.+)$/): the text after the first "/features/"
extractFeaturePath(topic) ==
    IF topic = Undef \/ topic = "" THEN Null
    ELSE LET i == indexOf(topic, "/features/")
         IN  IF i = 0 \/ i + 10 > Len(topic) THEN Null
             ELSE SubSeq(topic, i + 10, Len(topic))

\* the longest prefix of s without the character "}"
RECURSIVE upToBrace(_)
upToBrace(s) ==
    IF s = "" \/ CharAt(s, 1) = "}" THEN ""
    ELSE CharAt(s, 1) \o upToBrace(SubSeq(s, 2, Len(s)))

\* template.match(/properties\.([^}]+)/): the capture, or Null without a match
matchProperties(template) ==
    LET i == indexOf(template, "properties.")
        rest == SubSeq(template, i + 11, Len(template))
    IN  IF i = 0 \/ upToBrace(rest) = "" THEN Null ELSE upToBrace(rest)

extractPropertyPath(valueTemplate) ==
    IF valueTemplate = Undef \/ valueTemplate = "" THEN "value.value"
    ELSE IF matchProperties(valueTemplate) = Null THEN "value.value"
    ELSE trim(matchProperties(valueTemplate))

\* /^heating\.circuits\.\d+$/.test(featurePath)
isCircuitContainerFeature(featurePath) ==
    /\ startsWith(featurePath, "heating.circuits.")
    /\ isNumeric(SubSeq(featurePath, 18, Len(featurePath)))

listPatterns ==
    <<"heating.burners", "heating.circuits", "heating.compressors",
      "device.serial.internalComponents", "fuelCell.errors.raw", "gateway.devices">>

\* a faulty variant that knows no list feature
isListFeatureNever(featurePath) == FALSE

isListFeature(featurePath) == inArray(listPatterns, featurePath)

(***************************************************************************)
(* homeassistant-utils: value templates                                    *)
(***************************************************************************)
\* /^\w+$/.test(s)
RECURSIVE allWordChars(_)
allWordChars(s) ==
    IF s = "" THEN TRUE
    ELSE IsWordChar(CharAt(s, 1)) /\ allWordChars(SubSeq(s, 2, Len(s)))

\* the four nested "is defined" guards that open every safe template
definedGuards(prop, subProp) ==
    "{% if value_json is defined %}{% if value_json.properties is defined %}"
        \o "{% if value_json.properties." \o prop \o " is defined %}"
        \o "{% if value_json.properties." \o prop \o "." \o subProp \o " is defined %}"

\* the template of a two-part path prop.subProp
nestedTemplate(prop, subProp, isBinarySensor) ==
    LET ref == "value_json.properties." \o prop \o "." \o subProp
    IN  IF isBinarySensor
        THEN definedGuards(prop, subProp)
                \o "{% if " \o ref \o " == true %}ON{% elif " \o ref
                \o " == false %}OFF{% elif " \o ref \o "|lower == \"on\" %}ON{% elif "
                \o ref \o "|lower == \"off\" %}OFF{% else %}{{ " \o ref
                \o " }}{% endif %}{% endif %}{% endif %}{% endif %}{% endif %}"
        ELSE definedGuards(prop, subProp)
                \o "{{ " \o ref \o " }}{% endif %}{% endif %}{% endif %}{% endif %}"

\* the template of an array access prop.subProp[index]
arrayTemplate(prop, subProp, index) ==
    LET ref == "value_json.properties." \o prop \o "." \o subProp
    IN  definedGuards(prop, subProp)
            \o "{% if " \o ref \o " is iterable %}{% if " \o ref \o "|length > "
            \o index \o " %}{{ " \o ref \o "[" \o index \o "] }}"
            \o "{% endif %}{% endif %}{% endif %}{% endif %}{% endif %}{% endif %}"

safeValueTemplate(propertyPath, isBinarySensor) ==
    LET dot == indexOf(propertyPath, ".")
        open == indexOf(propertyPath, "[")
        prop == SubSeq(propertyPath, 1, dot - 1)
        subProp == SubSeq(propertyPath, dot + 1, open - 1)
        index == SubSeq(propertyPath, open + 1, Len(propertyPath) - 1)
        \* propertyPath.match(/^(\w+)\.(\w+)\[(\d+)\]$/)
        arrayMatch ==
            /\ dot > 1 /\ open > dot + 1 /\ endsWith(propertyPath, "]")
            /\ allWordChars(prop) /\ allWordChars(subProp) /\ isNumeric(index)
        parts == split(propertyPath, ".")
    IN  IF propertyPath = "value.value"
        THEN nestedTemplate("value", "value", isBinarySensor)
        ELSE IF includes(propertyPath, "[") /\ includes(propertyPath, "]") /\ arrayMatch
        THEN arrayTemplate(prop, subProp, index)
        ELSE IF Len(parts) = 2
        THEN nestedTemplate(parts[1], parts[2], isBinarySensor)
        ELSE nestedTemplate("value", "value", isBinarySensor)

percentageValueTemplate(propertyPath) ==
    IF propertyPath = "value.value"
    THEN definedGuards("value", "value")
            \o "{% set val = value_json.properties.value.value %}"
            \o "{% if val > 0 and val <= 1 %}{{ (val * 100) | round(1) }}"
            \o "{% else %}{{ val }}{% endif %}{% endif %}{% endif %}{% endif %}{% endif %}"
    ELSE safeValueTemplate(propertyPath, FALSE)

(***************************************************************************)
(* Device variants and their @Sensor methods                               *)
(***************************************************************************)
SensorMeta(featurePath, platform, deviceClass, unitOfMeasurement, valueTemplate, componentKey) ==
    [featurePath |-> featurePath, platform |-> platform, deviceClass |-> deviceClass,
     unitOfMeasurement |-> unitOfMeasurement, valueTemplate |-> valueTemplate,
     componentKey |-> componentKey]

\* the @Sensor methods of HeatingDevice, in the order of its prototype
HeatingDeviceSensors ==
    << SensorMeta("heating.sensors.temperature.outside", "sensor", "temperature",
                  "°C", Undef, "outside_temp"),
       SensorMeta("heating.sensors.temperature.return", "sensor", "temperature",
                  "°C", Undef, "return_temp"),
       SensorMeta("heating.dhw.sensors.temperature.dhwCylinder", "sensor", "temperature",
                  "°C", Undef, "dhw_storage_temp"),
       SensorMeta("heating.dhw", "binary_sensor", "heat", Undef,
                  "{{ value_json.properties.active.value }}", "dhw") >>

\* the @Sensor methods of GazBoiler
GazBoilerSensors ==
    << SensorMeta("heating.boiler.sensors.temperature.main", "sensor", "temperature",
                  "°C", Undef, "boiler_temp"),
       SensorMeta("heating.gas.consumption.heating", "sensor", Undef, Undef,
                  "{{ value_json.properties.day.value[0] }}", "gas_consumption") >>

\* the @Sensor methods of FuelCell
FuelCellSensors ==
    << SensorMeta("heating.power.production.current", "sensor", "power", Undef,
                  Undef, "power_production"),
       SensorMeta("heating.gas.consumption.fuelCell", "sensor", "gas", Undef,
                  "{{ value_json.properties.day.value[0] }}", "fuelcell_gas_consumption") >>

Variants == {"GazBoiler", "Hybrid", "HeatPump", "FuelCell"}

\* getDiscoverableMethods(device): own prototype first, then up the chain; a
\* decorated `declare` field is no function on any prototype and is not listed
getDiscoverableMethods(v) ==
    CASE v \in {"GazBoiler", "Hybrid"} -> GazBoilerSensors \o HeatingDeviceSensors
      [] v = "FuelCell" -> FuelCellSensors \o HeatingDeviceSensors
      [] OTHER -> HeatingDeviceSensors

(***************************************************************************)
(* Entity categories and the service-technician predicates                 *)
(***************************************************************************)
isServiceTechnicianFeature(featurePath) ==
    \/ includes(featurePath, ".configuration.")
    \/ includes(featurePath, ".screedDrying")
    \/ includes(featurePath, ".hysteresis")
    \/ includes(featurePath, ".minimumLimit")
    \/ includes(featurePath, ".maximumLimit")
    \/ includes(featurePath, ".defaultLimit")
    \/ includes(featurePath, ".normalRange")

\* /^count(One|Two|Three|Four|Five|Six|Seven)$/.test(key)
isCountKey(key) ==
    key \in {"countOne", "countTwo", "countThree", "countFour", "countFive",
             "countSix", "countSeven"}

determineEntityCategory(featurePath, platform, deviceClass, properties) ==
    IF isServiceTechnicianFeature(featurePath)
       /\ platform \in {"sensor", "binary_sensor"}
    THEN "diagnostic"
    ELSE IF \/ includes(featurePath, ".status") \/ includes(featurePath, ".error")
            \/ includes(featurePath, ".signal") \/ includes(featurePath, ".rssi")
            \/ includes(featurePath, "connection") \/ includes(featurePath, "firmware")
            \/ includes(featurePath, "software") \/ includes(featurePath, "version")
    THEN "diagnostic"
    ELSE IF /\ \/ includes(featurePath, "consumption")
               \/ includes(featurePath, "production")
               \/ includes(featurePath, "statistics")
            /\ \E k \in {"week", "month", "year", "currentMonth", "currentYear",
                         "lastMonth", "lastYear"} : hasProp(properties, k)
    THEN "diagnostic"
    ELSE IF \E i \in 1..Len(properties) : isCountKey(properties[i].key)
    THEN "diagnostic"
    ELSE Undef

\* a faulty variant that gives every platform the config category
addServiceCommandPropertiesAnyPlatform(component, isServiceCommand) ==
    IF ~isServiceCommand THEN component
    ELSE [component EXCEPT !.enabled_by_default = BoolV(FALSE), !.en = BoolV(FALSE),
                           !.entity_category = "config", !.ent_cat = "config"]

addServiceCommandProperties(component, isServiceCommand) ==
    IF ~isServiceCommand THEN component
    ELSE IF component.platform \in {"number", "select", "switch", "button", "text", "climate"}
    THEN [component EXCEPT !.enabled_by_default = BoolV(FALSE), !.en = BoolV(FALSE),
                           !.entity_category = "config", !.ent_cat = "config"]
    ELSE [component EXCEPT !.enabled_by_default = BoolV(FALSE), !.en = BoolV(FALSE)]

serviceCommandNames ==
    <<"setAltitude", "reset", "setOrientation", "setNormalRange", "setHysteresis",
      "setHysteresisSwitchOnValue", "setHysteresisSwitchOffValue", "setMinimumLimit",
      "setMaximumLimit", "setDefaultLimit", "removeController", "removeZigbeeController">>

\* a faulty variant without the exemption of reset on a schedule
isServiceTechnicianCommandNoExemption(commandName, featurePath) ==
    isServiceTechnicianFeature(featurePath) \/ inArray(serviceCommandNames, commandName)

\* a faulty variant that looks at the command name alone
isServiceTechnicianCommandByName(commandName, featurePath) ==
    IF commandName = "reset" /\ includes(featurePath, ".schedule") THEN FALSE
    ELSE inArray(serviceCommandNames, commandName)

isServiceTechnicianCommand(commandName, featurePath) ==
    IF isServiceTechnicianFeature(featurePath) THEN TRUE
    ELSE IF commandName = "reset" /\ includes(featurePath, ".schedule") THEN FALSE
    ELSE inArray(serviceCommandNames, commandName)

(***************************************************************************)
(* Pass 1: components of the @Sensor methods                               *)
(***************************************************************************)
\* features.find(f => f.feature === path): its index, 0 when there is none
findFeature(fs, path) ==
    IF \E i \in 1..Len(fs) : fs[i].feature = path
    THEN CHOOSE i \in 1..Len(fs) :
            fs[i].feature = path /\ \A j \in 1..(i - 1) : fs[j].feature # path
    ELSE 0

\* new Map(features.filter(f => f.isEnabled).map(...)).get(path): the last wins
enabledFeature(fs, path) ==
    IF \E i \in 1..Len(fs) : fs[i].feature = path /\ fs[i].isEnabled
    THEN CHOOSE i \in 1..Len(fs) :
            /\ fs[i].feature = path /\ fs[i].isEnabled
            /\ \A j \in (i + 1)..Len(fs) : ~(fs[j].feature = path /\ fs[j].isEnabled)
    ELSE 0

\* the component config built for one discoverable method
decoratedComponent(m, fs) ==
    LET propertyPath ==
            IF m.valueTemplate # Undef /\ matchProperties(m.valueTemplate) # Null
            THEN trim(matchProperties(m.valueTemplate)) ELSE "value.value"
        valueTemplate ==
            IF m.valueTemplate # Undef
            THEN safeValueTemplate(propertyPath, m.platform = "binary_sensor")
            ELSE IF includes(m.featurePath, "modulation")
            THEN percentageValueTemplate(propertyPath)
            ELSE safeValueTemplate(propertyPath, m.platform = "binary_sensor")
        config == [NewComponent EXCEPT
                    !.platform = m.platform,
                    !.unique_id = uniqueId(m.componentKey),
                    !.state_topic = stateTopic(m.featurePath),
                    !.value_template = valueTemplate,
                    !.device_class = m.deviceClass,
                    !.unit_of_measurement =
                        IF m.unitOfMeasurement # Undef
                        THEN normalizeUnit(m.unitOfMeasurement, m.deviceClass)
                        ELSE Undef]
        f == findFeature(fs, m.featurePath)
        entityCategory ==
            IF f = 0 THEN Undef
            ELSE determineEntityCategory(m.featurePath, m.platform, m.deviceClass,
                                         fs[f].properties)
    IN  [config EXCEPT !.entity_category = entityCategory, !.ent_cat = entityCategory]

RECURSIVE decoratedFrom(_, _, _)
decoratedFrom(methods, fs, cs) ==
    IF methods = <<>> THEN cs
    ELSE LET m == Head(methods)
         IN  IF \E i \in 1..Len(fs) : fs[i].isEnabled /\ fs[i].feature = m.featurePath
             THEN decoratedFrom(Tail(methods), fs,
                                putKey(cs, m.componentKey, decoratedComponent(m, fs)))
             ELSE decoratedFrom(Tail(methods), fs, cs)

generateComponentsFromDecorators(v, fs) ==
    decoratedFrom(getDiscoverableMethods(v), fs, <<>>)

\* a faulty variant in which the set of claimed paths outlives the call: the
\* paths of the document returned before stay claimed
RECURSIVE claimedPaths(_, _)
claimedPaths(paths, cs) ==
    IF cs = <<>> THEN paths
    ELSE LET featurePath == extractFeaturePath(Head(cs).c.state_topic)
         IN  IF featurePath # Null /\ ~isCircuitContainerFeature(featurePath)
                /\ ~isListFeature(featurePath)
             THEN claimedPaths(setAdd(paths, featurePath), Tail(cs))
             ELSE claimedPaths(paths, Tail(cs))

trackFeaturePathsKept(paths, cs) == claimedPaths(paths, cs \o doc1)

\* a faulty variant that claims no path
trackFeaturePathsNone(paths, cs) == paths

\* the feature paths a pass's components claim (lines 144-158 and 180-193)
RECURSIVE trackFeaturePaths(_, _)
trackFeaturePaths(paths, cs) ==
    IF cs = <<>> THEN paths
    ELSE LET featurePath == extractFeaturePath(Head(cs).c.state_topic)
         IN  IF featurePath # Null /\ ~isCircuitContainerFeature(featurePath)
                /\ ~isListFeature(featurePath)
             THEN trackFeaturePaths(setAdd(paths, featurePath), Tail(cs))
             ELSE trackFeaturePaths(paths, Tail(cs))

(***************************************************************************)
(* Pass 2: enhancement of the components from the feature data             *)
(***************************************************************************)
UNIT_PROPERTY_PRIORITY == <<"day", "currentDay", "value", "week", "month", "year">>

\* the unit of the first of [propertyKey, ...UNIT_PROPERTY_PRIORITY] that has one
RECURSIVE findUnitIn(_, _)
findUnitIn(properties, searchKeys) ==
    IF searchKeys = <<>> THEN Undef
    ELSE IF hasProp(properties, Head(searchKeys))
            /\ getProp(properties, Head(searchKeys)).unit # Undef
    THEN getProp(properties, Head(searchKeys)).unit
    ELSE findUnitIn(properties, Tail(searchKeys))

findUnit(properties, propertyKey) ==
    findUnitIn(properties, <<propertyKey>> \o UNIT_PROPERTY_PRIORITY)

\* a faulty variant that takes every unit for an energy unit
isWattHourUnitAlways(unit) == TRUE

\* /kilowatthour|watthour|megawatthour/i.test(unit)
isWattHourUnit(unit) ==
    \/ includes(unit, "kilowatthour") \/ includes(unit, "watthour")
    \/ includes(unit, "megawatthour")

\* DEVICE_CLASS_RULES.find(r => r.match(featurePath, unitLower)): first match wins
determineDeviceClass(featurePath, unit) ==
    LET unitLower == toLowerCase(unit)
    IN  IF /\ includes(featurePath, "gas") /\ includes(featurePath, "consumption")
           /\ ~isWattHourUnit(unitLower)
        THEN [deviceClass |-> Undef, removeDeviceClass |-> TRUE]
        ELSE IF /\ includes(featurePath, "gas") /\ includes(featurePath, "consumption")
                /\ isWattHourUnit(unitLower)
        THEN [deviceClass |-> "energy", removeDeviceClass |-> FALSE]
        ELSE IF includes(featurePath, "production") /\ includes(featurePath, "power")
        THEN [deviceClass |-> "power", removeDeviceClass |-> FALSE]
        ELSE IF \/ isWattHourUnit(unitLower) \/ includes(unitLower, "gigawatthour")
                \/ includes(unitLower, "joule") \/ includes(unitLower, "calorie")
                \/ includes(unitLower, "btu")
        THEN [deviceClass |-> "energy", removeDeviceClass |-> FALSE]
        ELSE IF /\ \/ includes(unitLower, "kilowatt") \/ includes(unitLower, "watt")
                   \/ includes(unitLower, "megawatt")
                /\ ~includes(unitLower, "hour")
        THEN [deviceClass |-> "power", removeDeviceClass |-> FALSE]
        ELSE [deviceClass |-> Undef, removeDeviceClass |-> FALSE]

\* Array.isArray(properties[key].value) for key in week, month, year
RECURSIVE timeBasedKeys(_, _)
timeBasedKeys(properties, keys) ==
    IF keys = <<>> THEN <<>>
    ELSE (IF hasProp(properties, Head(keys))
             /\ getProp(properties, Head(keys)).value.t = "array"
          THEN <<Head(keys)>> ELSE <<>>) \o timeBasedKeys(properties, Tail(keys))

RECURSIVE timeBasedFrom(_, _, _, _, _)
timeBasedFrom(keys, featurePath, baseComponentKey, base, cs) ==
    IF keys = <<>> THEN cs
    ELSE LET timeKey == Head(keys)
             config == [NewComponent EXCEPT
                 !.platform = "sensor",
                 !.unique_id = uniqueId(baseComponentKey \o "_" \o timeKey),
                 !.state_topic = stateTopic(featurePath),
                 !.value_template = safeValueTemplate(timeKey \o ".value[0]", FALSE),
                 !.device_class =
                     IF base.device_class \notin {Undef, ""}
                        /\ base.unit_of_measurement \notin {Undef, ""}
                     THEN base.device_class ELSE Undef,
                 !.unit_of_measurement =
                     IF base.unit_of_measurement \notin {Undef, ""}
                     THEN base.unit_of_measurement ELSE Undef]
         IN  timeBasedFrom(Tail(keys), featurePath, baseComponentKey, base,
                           putKey(cs, baseComponentKey \o "_" \o timeKey, config))

\* homeassistant-utils generateTimeBasedComponents: week, month and year siblings
generateTimeBasedComponents(featurePath, feature, baseComponentKey, base) ==
    timeBasedFrom(timeBasedKeys(feature.properties, <<"week", "month", "year">>),
                  featurePath, baseComponentKey, base, <<>>)

\* enhanceComponent on components[componentKey]; yields the components record
enhanceComponent(componentKey, feature, cs) ==
    LET component == getKey(cs, componentKey)
        featurePath == extractFeaturePath(component.state_topic)
        propertyPath == extractPropertyPath(component.value_template)
        propertyKey == split(propertyPath, ".")[1]
        unit == findUnit(feature.properties, propertyKey)
        existingDeviceClass == component.device_class
        rule == determineDeviceClass(featurePath, unit)
        normalizedUnit ==
            normalizeUnit(unit, IF rule.deviceClass # Undef THEN rule.deviceClass
                                ELSE existingDeviceClass)
        enhanced ==
            IF unit = Undef \/ unit = "" THEN component
            ELSE [component EXCEPT
                    !.device_class =
                        IF rule.deviceClass # Undef THEN rule.deviceClass
                        ELSE IF rule.removeDeviceClass THEN Undef
                        ELSE existingDeviceClass,
                    !.unit_of_measurement =
                        IF normalizedUnit \notin {Undef, ""} THEN normalizedUnit
                        ELSE component.unit_of_measurement]
        cs1 == putKey(cs, componentKey, enhanced)
    IN  IF featurePath = Null THEN cs
        ELSE IF propertyKey \in {"day", "currentDay"}
        THEN ObjectAssign(cs1, generateTimeBasedComponents(featurePath, feature,
                                    componentKey, enhanced))
        ELSE cs1

\* Object.entries(components).forEach(...) over the entries taken at the start
RECURSIVE enhanceFrom(_, _, _)
enhanceFrom(entries, fs, cs) ==
    IF entries = <<>> THEN cs
    ELSE LET featurePath == extractFeaturePath(Head(entries).c.state_topic)
             f == IF featurePath = Null THEN 0 ELSE enabledFeature(fs, featurePath)
         IN  IF f = 0 THEN enhanceFrom(Tail(entries), fs, cs)
             ELSE enhanceFrom(Tail(entries), fs,
                              enhanceComponent(Head(entries).key, fs[f], cs))

enhanceComponentsFromFeatures(cs, fs) == enhanceFrom(cs, fs, cs)

(***************************************************************************)
(* Pass 3: the components the device variant generates from its            *)
(* @CircuitSensor, @CircuitClimate, @HeatingCurve, @TimeBasedSensor and    *)
(* @BurnerSensor registrations                                             *)
(***************************************************************************)
\* Object.getPrototypeOf, from the instance's own prototype up to Device
prototypeChain(v) ==
    CASE v = "GazBoiler" -> <<"GazBoiler", "HeatingDevice", "Device">>
      [] v = "Hybrid" -> <<"Hybrid", "GazBoiler", "HeatingDevice", "Device">>
      [] v = "FuelCell" -> <<"FuelCell", "HeatingDevice", "Device">>
      [] OTHER -> <<"HeatPump", "HeatingDevice", "Device">>

\* Object.getOwnPropertyNames(Class.prototype) without "constructor": the methods
\* and the getters @PropertyRetrieval defines; a `declare` field adds no name
ownPropertyNames(cls) ==
    CASE cls = "Device" ->
            <<"getProperty", "getPropertyValue", "hasRoles", "getSerial", "getModelId",
              "generateHomeAssistantComponents", "generateTimeBasedSensorComponents",
              "detectDeviceClassAndUnit", "detectDeviceClassAndUnitGeneric">>
      [] cls = "HeatingDevice" ->
            <<"getOutsideTemperature", "getReturnTemperature", "getAvailableCircuits",
              "getDomesticHotWaterStorageTemperature", "getDomesticHotWaterActive",
              "generateHomeAssistantComponents", "generateComponentsFromMetadata",
              "generateCircuitClimateComponents", "generateCircuitSensorComponents",
              "generateHeatingCurveComponents", "isDomesticHotWaterDevice",
              "isSolarThermalDevice">>
      [] cls = "GazBoiler" ->
            <<"getAvailableBurners", "getBoilerTemperature",
              "getGasConsumptionHeatingToday", "generateHomeAssistantComponents",
              "generateBurnerSensorComponents", "getBoilerTargetTemperature",
              "getGasConsumptionHeatingUnit", "getGasConsumptionDomesticHotWaterToday",
              "getPowerConsumptionToday", "getPowerConsumptionUnit",
              "getSupplyPressure", "getSupplyPressureUnit", "getBurnerModulationTotal">>
      [] cls = "FuelCell" ->
            <<"getAvailableBurners", "getFuelCellPowerProductionCurrent",
              "getFuelCellGasConsumptionToday", "generateHomeAssistantComponents",
              "generateBurnerSensorComponents", "getFuelCellOperatingModeActive",
              "getFuelCellPowerProductionToday", "getFuelCellPowerProductionUnit",
              "getFuelCellPowerProductionCurrentUnit", "getFuelCellGasConsumptionUnit",
              "getPowerConsumptionToday", "getPowerConsumptionUnit",
              "getSupplyPressure", "getSupplyPressureUnit">>
      [] cls = "HeatPump" ->
            <<"getAvailableCompressors", "getBufferMainTemperature",
              "getBufferTopTemperature", "getPowerConsumptionHeatingToday",
              "getPowerConsumptionHeatingUnit", "getPowerConsumptionCoolingToday",
              "getSeasonalPerformanceFactorHeating", "getSeasonalPerformanceFactorDHW",
              "getSeasonalPerformanceFactorTotal", "getSupplyPressure",
              "getSupplyPressureUnit">>
      [] OTHER ->
            <<"getAvailableCompressors", "getBufferMainTemperature",
              "getSeasonalPerformanceFactorHeating">>

ComplexMeta(propertyName, featurePath, platform, deviceClass, unitOfMeasurement, valueTemplate, componentKey, propertyPath) ==
    [propertyName |-> propertyName, featurePath |-> featurePath, platform |-> platform,
     deviceClass |-> deviceClass, unitOfMeasurement |-> unitOfMeasurement,
     valueTemplate |-> valueTemplate, componentKey |-> componentKey,
     propertyPath |-> propertyPath]

BurnerRegistrations ==
    << ComplexMeta("_generateBurnerHours", "heating.burners.N.statistics", "sensor",
                   Undef, "h", Undef, "burner_{id}_hours", "hours.value"),
       ComplexMeta("_generateBurnerStarts", "heating.burners.N.statistics", "sensor",
                   Undef, Undef, "{{ value_json.properties.starts.value | int }}",
                   "burner_{id}_starts", "starts.value"),
       ComplexMeta("_generateBurnerModulation", "heating.burners.N.modulation", "sensor",
                   Undef, "%", percentageValueTemplate("value.value"),
                   "burner_{id}_modulation", "value.value"),
       ComplexMeta("_generateBurnerDemandModulation", "heating.burners.N.demand.modulation",
                   "sensor", Undef, "%", percentageValueTemplate("value.value"),
                   "burner_{id}_demand_modulation", "value.value") >>

\* store.get(Class.prototype): what the decorators of that class registered
complexStore(kind, cls) ==
    CASE kind = "circuitSensors" /\ cls = "HeatingDevice" ->
            << ComplexMeta("_generateCircuitRoomTemp",
                           "heating.circuits.N.sensors.temperature.room", "sensor",
                           "temperature", "°C", Undef, "circuit_{id}_room_temp", Undef),
               ComplexMeta("_generateCircuitSupplyTemp",
                           "heating.circuits.N.sensors.temperature.supply", "sensor",
                           "temperature", "°C", Undef, "circuit_{id}_supply_temp", Undef) >>
      [] kind = "circuitClimates" /\ cls = "HeatingDevice" ->
            << ComplexMeta("_generateCircuitClimate",
                           "heating.circuits.N.operating.modes.active", "climate",
                           Undef, Undef, Undef, "circuit_{id}", Undef) >>
      [] kind = "heatingCurves" /\ cls = "HeatingDevice" ->
            << ComplexMeta("_generateHeatingCurve", "heating.circuits.N.heating.curve",
                           "sensor", Undef, Undef, Undef, "circuit_{id}_heating_curve",
                           Undef) >>
      [] kind = "timeBasedSensors" /\ cls = "GazBoiler" ->
            << ComplexMeta("_generateGasConsumptionTimeBased",
                           "heating.gas.consumption.heating", "sensor", Undef, Undef,
                           Undef, "gas_consumption", Undef),
               ComplexMeta("_generatePowerConsumptionTimeBased",
                           "heating.power.consumption.total", "sensor", "energy", Undef,
                           Undef, "power_consumption", Undef) >>
      [] kind = "timeBasedSensors" /\ cls = "FuelCell" ->
            << ComplexMeta("_generateFuelCellGasConsumptionTimeBased",
                           "heating.gas.consumption.fuelCell", "sensor", "gas", Undef,
                           Undef, "fuelcell_gas_consumption", Undef) >>
      [] kind = "burnerSensors" /\ cls \in {"GazBoiler", "FuelCell"} ->
            BurnerRegistrations
      [] OTHER -> <<>>

\* a variant of the read that returns the store entries of the whole prototype
\* chain, without the lookup of the member names
RECURSIVE storeOfChain(_, _)
storeOfChain(kind, chain) ==
    IF chain = <<>> THEN <<>>
    ELSE complexStore(kind, Head(chain)) \o storeOfChain(kind, Tail(chain))

getComplexComponentPropertiesOfChain(v, kind) == storeOfChain(kind, prototypeChain(v))

\* discovery.ts getComplexComponentProperties: the names come from the whole
\* prototype chain, the metadata from the store entry of the instance's own
\* prototype alone
getComplexComponentProperties(v, kind) ==
    LET chain == prototypeChain(v)
        named(r) == \E c \in 1..Len(chain) : inArray(ownPropertyNames(chain[c]), r.propertyName)
    IN  SelectSeq(complexStore(kind, chain[1]), named)

\* this.features.get(path) of the device, whose Map keeps the last feature of a
\* path; getProperty yields it only when it is enabled (0: null)
getProperty(fs, path) ==
    IF \E i \in 1..Len(fs) : fs[i].feature = path
    THEN LET last == CHOOSE i \in 1..Len(fs) :
                        fs[i].feature = path /\ \A j \in (i + 1)..Len(fs) : fs[j].feature # path
         IN  IF fs[last].isEnabled THEN last ELSE 0
    ELSE 0

\* the end of getPropertyValue taken at every level: unwraps as long as the node
\* is an object with a value key
RECURSIVE unwrapValueDeep(_)
unwrapValueDeep(current) ==
    IF current.t = "object" /\ hasEntry(current, "value")
    THEN unwrapValueDeep(getEntry(current, "value"))
    ELSE current

\* the end of getPropertyValue: an object that has a "value" key yields that value
unwrapValue(current) ==
    IF current.t = "object" /\ hasEntry(current, "value")
    THEN getEntry(current, "value")
    ELSE current

\* the loop of getPropertyValue over the parts of the path
RECURSIVE walkParts(_, _)
walkParts(current, parts) ==
    IF parts = <<>> THEN unwrapValue(current)
    ELSE IF current.t \in {"null", "undefined"} THEN NullV
    ELSE IF current.t \notin {"object", "array"} THEN NullV
    ELSE IF member(current, Head(parts)) = UndefV THEN NullV
    ELSE walkParts(member(current, Head(parts)), Tail(parts))

\* getPropertyValue(feature, propertyPath), feature given as getProperty yields it
getPropertyValue(fs, f, propertyPath) ==
    IF f = 0 THEN NullV
    ELSE walkParts(propertiesNode(fs[f].properties), split(propertyPath, "."))

\* features.find(f => f.feature === path && f.isEnabled)
findEnabled(fs, path) ==
    IF \E i \in 1..Len(fs) : fs[i].feature = path /\ fs[i].isEnabled
    THEN CHOOSE i \in 1..Len(fs) :
            /\ fs[i].feature = path /\ fs[i].isEnabled
            /\ \A j \in 1..(i - 1) : ~(fs[j].feature = path /\ fs[j].isEnabled)
    ELSE 0

getAvailableCircuits(fs) ==
    LET enabled == getPropertyValue(fs, getProperty(fs, "heating.circuits"), "enabled")
    IN  IF enabled.t = "array" THEN enabled.a ELSE <<>>

getAvailableBurners(fs) ==
    SelectSeq(<<"0", "1", "2", "3", "4", "5">>,
              LAMBDA i : getProperty(fs, "heating.burners." \o i) # 0)

\* HeatingCircuit.getModes: commands.setMode.params.mode.constraints.enum, or []
getModes(fs, circuitId) ==
    LET f == getProperty(fs, "heating.circuits." \o circuitId \o ".operating.modes.active")
        cmds == IF f = 0 THEN <<>>
                ELSE SelectSeq(fs[f].commands, LAMBDA c : c.name = "setMode")
        params == IF cmds = <<>> THEN <<>>
                  ELSE SelectSeq(cmds[1].params, LAMBDA q : q.name = "mode")
    IN  IF params = <<>> \/ params[1].enum = NoList THEN <<>> ELSE params[1].enum

\* HeatingCircuit.getCurrentDesiredTemperature (@DependentProperty on getActiveProgram)
getCurrentDesiredTemperature(fs, circuitId) ==
    LET prefix == "heating.circuits." \o circuitId \o ".operating.programs."
        program == getPropertyValue(fs, getProperty(fs, prefix \o "active"), "value")
        target == getProperty(fs, prefix \o program.s)
    IN  IF program.t # "string" \/ program.s = "" \/ program.s = "standby" THEN NullV
        ELSE getPropertyValue(fs, target, "temperature")

mapViessmannModeToHomeAssistant(mode) ==
    IF mode = "Nothing" \/ includes(toLowerCase(mode), "off") THEN "off"
    ELSE IF includes(mode, "Weather") /\ ~includes(mode, "Room") THEN "auto"
    ELSE "heat"

\* the mapped modes plus "off", sorted
mapViessmannModesToHomeAssistant(modes) ==
    LET mapped == {mapViessmannModeToHomeAssistant(modes[i]) : i \in 1..Len(modes)}
        valid == IF mapped # {} THEN mapped \cup {"off"} ELSE mapped
    IN  SelectSeq(<<"auto", "heat", "off">>, LAMBDA h : h \in valid)

generateModeMappingTemplate ==
    "{% if value_json is defined and value_json.properties is defined and "
        \o "value_json.properties.value is defined and "
        \o "value_json.properties.value.value is defined %}\n"
        \o "{% set mode = value_json.properties.value.value %}\n"
        \o "{% if mode == \"Nothing\" or \"off\" in mode|lower %}off\n"
        \o "{% elif \"Weather\" in mode and \"Room\" not in mode %}auto\n"
        \o "{% else %}heat\n{% endif %}\n{% else %}off{% endif %}"

\* what the component builder of one registration yields for one item
buildItem(kind, m, itemId, featurePath, feature, componentKey, fs) ==
    LET base == [NewComponent EXCEPT
                    !.platform = m.platform,
                    !.unique_id = uniqueId(componentKey),
                    !.state_topic = stateTopic(featurePath)]
        sensor == [base EXCEPT
                    !.value_template =
                        IF m.valueTemplate # Undef THEN m.valueTemplate
                        ELSE safeValueTemplate(
                                IF kind = "burnerSensors" THEN m.propertyPath
                                ELSE "value.value", m.platform = "binary_sensor"),
                    !.device_class = m.deviceClass,
                    !.unit_of_measurement =
                        IF m.unitOfMeasurement # Undef
                        THEN normalizeUnit(m.unitOfMeasurement, m.deviceClass) ELSE Undef]
        haModes == mapViessmannModesToHomeAssistant(getModes(fs, itemId))
        parts == split(m.propertyPath, ".")
    IN  CASE kind = "circuitSensors" ->
                IF ~hasProp(feature.properties, "value")
                   \/ getProp(feature.properties, "value").value.t \in {"undefined", "null"}
                THEN <<>>
                ELSE <<[key |-> componentKey, c |-> sensor]>>
          [] kind = "circuitClimates" ->
                IF getModes(fs, itemId) = <<>>
                   \/ getCurrentDesiredTemperature(fs, itemId).t = "null"
                   \/ haModes = <<>>
                THEN <<>>
                ELSE <<[key |-> componentKey, c |-> [base EXCEPT
                        !.current_temperature_topic =
                            stateTopic("heating.circuits." \o itemId
                                        \o ".sensors.temperature.room"),
                        !.current_temperature_template =
                            safeValueTemplate("value.value", FALSE),
                        !.mode_state_topic = stateTopic(featurePath),
                        !.mode_state_template = generateModeMappingTemplate,
                        !.modes = haModes]]>>
          [] kind = "heatingCurves" ->
                << [key |-> componentKey \o "_slope", c |-> [base EXCEPT
                        !.unique_id = uniqueId(componentKey \o "_slope"),
                        !.value_template = "{{ value_json.properties.slope.value | float }}",
                        !.state_class = "measurement"]],
                   [key |-> componentKey \o "_shift", c |-> [base EXCEPT
                        !.unique_id = uniqueId(componentKey \o "_shift"),
                        !.value_template = "{{ value_json.properties.shift.value | int }}",
                        !.state_class = "measurement"]] >>
          [] OTHER ->
                IF ~hasProp(feature.properties, parts[1])
                   \/ getProp(feature.properties, parts[1]).value.t \in {"undefined", "null"}
                THEN <<>>
                ELSE <<[key |-> componentKey, c |-> [sensor EXCEPT
                        !.state_class = IF includes(m.propertyPath, "starts")
                                        THEN "total_increasing" ELSE Undef]]>>

\* the loop over the available items of one registration
RECURSIVE itemsFrom(_, _, _, _, _)
itemsFrom(kind, m, items, fs, cs) ==
    IF items = <<>> THEN cs
    ELSE LET itemId == Head(items)
             featurePath == replaceAll(m.featurePath, "N", itemId)
             f == findEnabled(fs, featurePath)
             componentKey == replaceAll(m.componentKey, "{id}", itemId)
         IN  IF f = 0 THEN itemsFrom(kind, m, Tail(items), fs, cs)
             ELSE itemsFrom(kind, m, Tail(items), fs,
                    ObjectAssign(cs, buildItem(kind, m, itemId, featurePath, fs[f],
                                               componentKey, fs)))

\* HeatingDevice.generateComponentsFromMetadata (and the burner loop of GazBoiler)
RECURSIVE generateComponentsFromMetadata(_, _, _, _)
generateComponentsFromMetadata(kind, metadataList, fs, cs) ==
    IF metadataList = <<>> THEN cs
    ELSE generateComponentsFromMetadata(kind, Tail(metadataList), fs,
            itemsFrom(kind, Head(metadataList),
                      IF kind = "burnerSensors" THEN getAvailableBurners(fs)
                      ELSE getAvailableCircuits(fs), fs, cs))

\* Device.generateTimeBasedSensorComponents
RECURSIVE generateTimeBasedSensorComponents(_, _, _)
generateTimeBasedSensorComponents(metadataList, fs, cs) ==
    IF metadataList = <<>> THEN cs
    ELSE LET m == Head(metadataList)
             f == findEnabled(fs, m.featurePath)
             props == fs[f].properties
             day == IF hasProp(props, "day") THEN getProp(props, "day")
                    ELSE Prop("day", Undef, UndefV, Undef)
             currentDay == IF hasProp(props, "currentDay") THEN getProp(props, "currentDay")
                           ELSE Prop("currentDay", Undef, UndefV, Undef)
             noDay == \/ day.value.t \in {"undefined", "null"}
                      \/ (day.value.t = "array" /\ day.value.a = <<>>)
             unit == IF day.unit \notin {Undef, ""} THEN day.unit ELSE currentDay.unit
             unitLower == toLowerCase(unit)
             base ==
                IF unit \in {Undef, ""}
                THEN [device_class |-> m.deviceClass,
                      unit_of_measurement |-> m.unitOfMeasurement]
                ELSE IF isWattHourUnit(unitLower)
                THEN [device_class |-> "energy",
                      unit_of_measurement |-> normalizeUnit(unit, "energy")]
                ELSE IF includes(unitLower, "cubicmeter") \/ includes(unitLower, "m³")
                THEN [device_class |-> Undef,
                      unit_of_measurement |->
                        IF normalizeUnit(unit, Undef) \notin {Undef, ""}
                        THEN normalizeUnit(unit, Undef) ELSE "m³"]
                ELSE [device_class |-> m.deviceClass,
                      unit_of_measurement |->
                        IF normalizeUnit(unit, Undef) \notin {Undef, ""}
                        THEN normalizeUnit(unit, Undef) ELSE unit]
         IN  IF f = 0 \/ (noDay /\ currentDay.value.t = "undefined")
             THEN generateTimeBasedSensorComponents(Tail(metadataList), fs, cs)
             ELSE generateTimeBasedSensorComponents(Tail(metadataList), fs,
                    ObjectAssign(cs, generateTimeBasedComponents(m.featurePath, fs[f],
                                                                 m.componentKey, base)))

\* device.generateHomeAssistantComponents: Device, then HeatingDevice, then the
\* burner sensors of GazBoiler (Hybrid inherits them) and FuelCell
generateHomeAssistantComponents(v, fs) ==
    LET timeBased ==
            generateTimeBasedSensorComponents(
                getComplexComponentProperties(v, "timeBasedSensors"), fs, <<>>)
        sensors ==
            generateComponentsFromMetadata("circuitSensors",
                getComplexComponentProperties(v, "circuitSensors"), fs, <<>>)
        climates ==
            generateComponentsFromMetadata("circuitClimates",
                getComplexComponentProperties(v, "circuitClimates"), fs, <<>>)
        curves ==
            generateComponentsFromMetadata("heatingCurves",
                getComplexComponentProperties(v, "heatingCurves"), fs, <<>>)
        heating == ObjectAssign(ObjectAssign(ObjectAssign(timeBased, sensors), climates), curves)
    IN  IF v \in {"GazBoiler", "Hybrid", "FuelCell"}
        THEN ObjectAssign(heating,
                generateComponentsFromMetadata("burnerSensors",
                    getComplexComponentProperties(v, "burnerSensors"), fs, <<>>))
        ELSE heating

(***************************************************************************)
(* Pass 4: sensors for every other enabled feature                         *)
(***************************************************************************)
\* the on/off test of a status value: a string equal to "on" or "off" in any case
isOnOff(value) == value.t = "string" /\ toLowerCase(value.s) \in {"on", "off"}

\* PLATFORM_DETECTION_RULES, first match wins
determinePlatform(featurePath, properties) ==
    LET status == getProp(properties, "status")
        hasStatus == /\ hasProp(properties, "status")
                     /\ status.type # Undef /\ hasValue(status)
        isTempPressure == includes(featurePath, "temperature") \/ includes(featurePath, "pressure")
        isBinaryState == \/ includes(featurePath, "pump") \/ includes(featurePath, "valve")
                         \/ includes(featurePath, "circulation")
    IN  IF hasProp(properties, "active") /\ getProp(properties, "active").type = "boolean"
        THEN "binary_sensor"
        ELSE IF /\ hasStatus
                /\ \/ status.type = "boolean"
                   \/ /\ status.type = "string" /\ isOnOff(status.value)
                      /\ ~hasProp(properties, "value") /\ ~isTempPressure
                   \/ /\ isBinaryState /\ status.type = "string" /\ isOnOff(status.value)
        THEN "binary_sensor"
        ELSE "sensor"

\* BINARY_SENSOR_PATHS, first match wins; path = Null: no property to read
findBinarySensorPropertyPath(featurePath, properties) ==
    LET has(k) == hasProp(properties, k) /\ hasValue(getProp(properties, k))
    IN  IF has("active") THEN [path |-> "active.value", deviceClass |-> "heat"]
        ELSE IF has("status")
                /\ (includes(featurePath, "pump") \/ includes(featurePath, "circulation"))
        THEN [path |-> "status.value", deviceClass |-> "running"]
        ELSE IF has("status") /\ includes(featurePath, "valve")
        THEN [path |-> "status.value", deviceClass |-> "opening"]
        ELSE IF has("status") THEN [path |-> "status.value", deviceClass |-> Undef]
        ELSE [path |-> Null, deviceClass |-> Undef]

\* PROPERTY_PATH_PRIORITY[...] for a feature path
propertyPathPriority(featurePath) ==
    IF includes(featurePath, "temperature") \/ includes(featurePath, "pressure")
    THEN <<"value", "strength", "day", "week", "month", "year">>
    ELSE IF includes(featurePath, "summary")
    THEN <<"value", "currentDay", "strength", "day", "week", "month", "year", "status">>
    ELSE <<"value", "strength", "status", "day", "week", "month", "year">>

findSensorPropertyPath(featurePath, properties) ==
    LET keys == [i \in 1..Len(properties) |-> properties[i].key]
        has(k) == hasProp(properties, k) /\ hasValue(getProp(properties, k))
        hasUnitProperty == \E i \in 1..Len(properties) : properties[i].unit # Undef
        isArray(k) == getProp(properties, k).value.t = "array"
        \* status is skipped for temperature and pressure when value.value exists
        skipStatus(k) ==
            /\ includes(featurePath, "temperature") \/ includes(featurePath, "pressure")
            /\ k = "status" /\ has("value")
        numeric == SelectSeq(keys, LAMBDA k :
                        /\ has(k) /\ getProp(properties, k).unit # Undef
                        /\ \/ getProp(properties, k).type = "number"
                           \/ getProp(properties, k).value.t = "number")
        byPriority == SelectSeq(propertyPathPriority(featurePath), LAMBDA k :
                        has(k) /\ ~skipStatus(k) /\ ~(hasUnitProperty /\ isArray(k)))
        fallback == SelectSeq(keys, LAMBDA k :
                        ~skipStatus(k) /\ has(k) /\ ~(hasUnitProperty /\ isArray(k)))
    IN  IF hasUnitProperty /\ numeric # <<>> THEN numeric[1] \o ".value"
        ELSE IF byPriority # <<>>
        THEN IF byPriority[1] \in {"day", "week", "month", "year"} /\ isArray(byPriority[1])
             THEN byPriority[1] \o ".value[0]" ELSE byPriority[1] \o ".value"
        ELSE IF fallback # <<>>
        THEN IF isArray(fallback[1]) THEN fallback[1] \o ".value[0]"
             ELSE fallback[1] \o ".value"
        ELSE "value.value"

\* truthiness of a string-valued slot
truthy(x) == x \notin {Undef, Null, ""}

\* Device.detectDeviceClassAndUnitGeneric
detectDeviceClassAndUnit(featurePath, propertyPath, properties) ==
    LET keys == [i \in 1..Len(properties) |-> properties[i].key]
        detectedPropKey == split(propertyPath, ".")[1]
        unitOf(k) == IF hasProp(properties, k) THEN getProp(properties, k).unit ELSE Undef
        isPercent(u) == u # Undef /\ toLowerCase(u) \in {"percent", "percentage"}
        withUnit(ks) == SelectSeq(ks, LAMBDA k : unitOf(k) # Undef)
        \* the energy unit of the first of day, currentDay, ... that normalizes
        energyKeys == SelectSeq(UNIT_PROPERTY_PRIORITY,
                        LAMBDA k : truthy(normalizeUnit(unitOf(k), "energy")))
        energyUnit == IF energyKeys = <<>> THEN "kWh"
                      ELSE normalizeUnit(unitOf(energyKeys[1]), "energy")
        pressureKeys == withUnit(<<detectedPropKey>> \o keys)
        pressureUnit ==
            IF pressureKeys = <<>> THEN "bar"
            ELSE IF truthy(normalizeUnit(unitOf(pressureKeys[1]), "pressure"))
            THEN normalizeUnit(unitOf(pressureKeys[1]), "pressure") ELSE "bar"
        dayUnit == unitOf("day")
        hinted ==
            IF includes(featurePath, "temperature")
            THEN [deviceClass |-> "temperature", unitOfMeasurement |-> "°C"]
            ELSE IF includes(featurePath, "wifi") /\ includes(propertyPath, "strength")
            THEN [deviceClass |-> "signal_strength", unitOfMeasurement |-> "dBm"]
            ELSE IF \/ includes(featurePath, "rssi")
                    \/ (includes(propertyPath, "strength") /\ includes(featurePath, "signal"))
            THEN [deviceClass |-> "signal_strength", unitOfMeasurement |-> "dBm"]
            ELSE IF includes(featurePath, "pressure")
            THEN [deviceClass |-> "pressure", unitOfMeasurement |-> pressureUnit]
            ELSE IF includes(featurePath, "consumption") /\ includes(featurePath, "gas")
            THEN IF dayUnit = Undef
                 THEN [deviceClass |-> Undef, unitOfMeasurement |-> Undef]
                 ELSE IF \/ includes(toLowerCase(dayUnit), "kilowatthour")
                         \/ includes(toLowerCase(dayUnit), "watthour")
                 THEN [deviceClass |-> "energy", unitOfMeasurement |->
                        IF truthy(normalizeUnit(dayUnit, "energy"))
                        THEN normalizeUnit(dayUnit, "energy") ELSE "kWh"]
                 ELSE [deviceClass |-> Undef, unitOfMeasurement |->
                        IF truthy(normalizeUnit(dayUnit, Undef))
                        THEN normalizeUnit(dayUnit, Undef) ELSE "m³"]
            ELSE IF includes(featurePath, "consumption") /\ includes(featurePath, "power")
            THEN [deviceClass |-> "energy", unitOfMeasurement |-> energyUnit]
            ELSE IF includes(featurePath, "consumption")
            THEN [deviceClass |-> Undef, unitOfMeasurement |-> Undef]
            ELSE IF includes(featurePath, "production") /\ includes(featurePath, "power")
            THEN [deviceClass |-> "power", unitOfMeasurement |->
                    IF unitOf(detectedPropKey) = Undef THEN Undef
                    ELSE IF truthy(normalizeUnit(unitOf(detectedPropKey), Undef))
                    THEN normalizeUnit(unitOf(detectedPropKey), Undef) ELSE "W"]
            ELSE IF includes(featurePath, "production") /\ includes(featurePath, "heat")
            THEN [deviceClass |-> "energy", unitOfMeasurement |-> energyUnit]
            ELSE [deviceClass |-> Undef, unitOfMeasurement |-> Undef]
        \* the fallback unit: the detected property's, else the first property
        \* with a unit and a value whose unit normalizes
        others == SelectSeq(keys, LAMBDA k :
                    /\ unitOf(k) # Undef /\ hasValue(getProp(properties, k))
                    /\ truthy(normalizeUnit(unitOf(k), Undef)))
        fallbackUnit ==
            IF truthy(normalizeUnit(unitOf(detectedPropKey), Undef))
            THEN normalizeUnit(unitOf(detectedPropKey), Undef)
            ELSE IF others # <<>> THEN normalizeUnit(unitOf(others[1]), Undef)
            ELSE Undef
    IN  IF isPercent(unitOf(detectedPropKey))
        THEN [deviceClass |-> Undef, unitOfMeasurement |-> "%"]
        ELSE IF \E i \in 1..Len(properties) :
                    isPercent(properties[i].unit) /\ hasValue(properties[i])
        THEN [deviceClass |-> Undef, unitOfMeasurement |-> "%"]
        ELSE IF truthy(hinted.unitOfMeasurement) THEN hinted
        ELSE [deviceClass |-> hinted.deviceClass, unitOfMeasurement |-> fallbackUnit]

\* featurePath.replace(/^heating\./, "").replace(/\./g, "_")
\*   .replace(/\d+/g, m => `_${m}_`).replace(/__+/g, "_").replace(/^_|_$/g, "")
generateComponentKey(featurePath) ==
    LET RECURSIVE wrapDigits(_, _)
        \* every maximal run of digits gets an underscore on each side
        wrapDigits(s, inRun) ==
            IF s = "" THEN (IF inRun THEN "_" ELSE "")
            ELSE IF IsDigit(CharAt(s, 1))
            THEN (IF inRun THEN "" ELSE "_") \o CharAt(s, 1)
                    \o wrapDigits(SubSeq(s, 2, Len(s)), TRUE)
            ELSE (IF inRun THEN "_" ELSE "") \o CharAt(s, 1)
                    \o wrapDigits(SubSeq(s, 2, Len(s)), FALSE)
        RECURSIVE collapse(_)
        \* every run of two or more underscores becomes one
        collapse(s) ==
            IF Len(s) < 2 THEN s
            ELSE IF CharAt(s, 1) = "_" /\ CharAt(s, 2) = "_"
            THEN collapse(SubSeq(s, 2, Len(s)))
            ELSE CharAt(s, 1) \o collapse(SubSeq(s, 2, Len(s)))
        noPrefix == IF startsWith(featurePath, "heating.")
                    THEN SubSeq(featurePath, 9, Len(featurePath)) ELSE featurePath
        body == collapse(wrapDigits(replaceAllChar(noPrefix, ".", "_"), FALSE))
        noLead == IF startsWith(body, "_") THEN SubSeq(body, 2, Len(body)) ELSE body
    IN  IF endsWith(noLead, "_") THEN SubSeq(noLead, 1, Len(noLead) - 1) ELSE noLead

\* the sensors of a countOne..countSeven / timestampOne..timestampSeven feature
countComponents(featurePath, properties, componentKey) ==
    LET keys == [i \in 1..Len(properties) |-> properties[i].key]
        countProperties == SelectSeq(keys, isCountKey)
        unit == getProp(properties, countProperties[1]).unit
        unitOfMeasurement == IF truthy(unit) THEN normalizeUnit(unit, Undef) ELSE Undef
        countNumbers == <<"One", "Two", "Three", "Four", "Five", "Six", "Seven">>
        \* countProperties.sort()
        sorted == SelectSeq(<<"countFive", "countFour", "countOne", "countSeven",
                              "countSix", "countThree", "countTwo">>,
                            LAMBDA k : inArray(countProperties, k))
        countIndex(k) == CHOOSE n \in 1..7 : "count" \o countNumbers[n] = k
        suffix(k) == componentKey \o "_count_" \o ToString(countIndex(k))
        service == isServiceTechnicianFeature(featurePath)
    IN  [i \in 1..Len(sorted) |->
            [key |-> suffix(sorted[i]),
             c |-> [NewComponent EXCEPT
                      !.platform = "sensor",
                      !.unique_id = uniqueId(suffix(sorted[i])),
                      !.state_topic = stateTopic(featurePath),
                      !.value_template = "{{ value_json.properties." \o sorted[i]
                                            \o ".value | int }}",
                      !.state_class = "measurement",
                      !.unit_of_measurement =
                          IF truthy(unitOfMeasurement) THEN unitOfMeasurement ELSE Undef,
                      !.enabled_by_default = IF service THEN BoolV(FALSE) ELSE UndefV,
                      !.en = IF service THEN BoolV(FALSE) ELSE UndefV,
                      !.entity_category = "diagnostic",
                      !.ent_cat = "diagnostic"]]]

\* hasCountTimestampPattern
hasCountTimestampPattern(properties) ==
    /\ \E i \in 1..Len(properties) : isCountKey(properties[i].key)
    /\ \A i \in 1..Len(properties) :
          isCountKey(properties[i].key) =>
              hasProp(properties, replaceFirst(properties[i].key, "count", "timestamp"))

\* one entity per property of device.configuration
configurationComponents(featurePath, properties, componentKey) ==
    LET usable == SelectSeq(properties, LAMBDA p : p.type # Undef /\ hasValue(p))
        joined(k) ==
            LET ref == "value_json.properties." \o k \o ".value"
            IN  definedGuards(k, "value") \o "{% if " \o ref \o " is iterable %}{{ "
                    \o ref \o "|join(', ') }}{% else %}{{ " \o ref
                    \o " }}{% endif %}{% endif %}{% endif %}{% endif %}{% endif %}"
    IN  [i \in 1..Len(usable) |->
            LET p == usable[i]
            IN  [key |-> componentKey \o "_" \o p.key,
                 c |-> [NewComponent EXCEPT
                          !.platform = IF p.type = "boolean" THEN "binary_sensor"
                                       ELSE "sensor",
                          !.unique_id = uniqueId(componentKey \o "_" \o p.key),
                          !.state_topic = stateTopic(featurePath),
                          !.value_template =
                              IF p.type = "boolean"
                              THEN safeValueTemplate(p.key \o ".value", TRUE)
                              ELSE IF p.type = "array" THEN joined(p.key)
                              ELSE safeValueTemplate(p.key \o ".value", FALSE),
                          !.device_class =
                              IF p.type = "boolean"
                                 /\ includes(toLowerCase(p.key), "active")
                              THEN "heat" ELSE Undef,
                          !.entity_category = "diagnostic",
                          !.ent_cat = "diagnostic"]]]

\* the time-based properties of a feature: a value that is an array or a number
timeBasedProperties(properties) ==
    SelectSeq(<<"day", "week", "month", "year", "currentDay", "lastSevenDays",
                "currentMonth", "lastMonth", "currentYear", "lastYear">>,
              LAMBDA k : /\ hasProp(properties, k)
                         /\ getProp(properties, k).value.t \in {"array", "number"})

\* one sensor per time-based property of a feature that has several
multiTimeComponents(featurePath, properties, componentKey) ==
    LET timeProps == timeBasedProperties(properties)
        withUnit == SelectSeq(timeProps, LAMBDA k : getProp(properties, k).unit # Undef)
        rawUnit == IF withUnit = <<>> THEN Undef ELSE getProp(properties, withUnit[1]).unit
        timeBasedDeviceClass ==
            IF truthy(rawUnit) THEN determineDeviceClass(featurePath, rawUnit).deviceClass
            ELSE Undef
        timeBasedUnit ==
            IF truthy(rawUnit) THEN normalizeUnit(rawUnit, timeBasedDeviceClass) ELSE Undef
        finalTimeDeviceClass ==
            IF truthy(timeBasedDeviceClass) THEN timeBasedDeviceClass
            ELSE IF includes(featurePath, "consumption") /\ includes(featurePath, "power")
            THEN "energy"
            ELSE IF includes(featurePath, "production") /\ includes(featurePath, "heat")
            THEN "energy"
            ELSE IF includes(featurePath, "production") /\ includes(featurePath, "power")
            THEN "power"
            ELSE Undef
        finalTimeUnit ==
            IF truthy(timeBasedUnit) THEN timeBasedUnit
            ELSE IF finalTimeDeviceClass = "energy" THEN "kWh"
            ELSE IF finalTimeDeviceClass = "power" THEN "W"
            ELSE Undef
        service == isServiceTechnicianFeature(featurePath)
        timePropertyPath(k) ==
            IF getProp(properties, k).value.t = "array" THEN k \o ".value[0]"
            ELSE k \o ".value"
    IN  [i \in 1..Len(timeProps) |->
            [key |-> componentKey \o "_" \o timeProps[i],
             c |-> [NewComponent EXCEPT
                      !.platform = "sensor",
                      !.unique_id = uniqueId(componentKey \o "_" \o timeProps[i]),
                      !.state_topic = stateTopic(featurePath),
                      !.value_template =
                          safeValueTemplate(timePropertyPath(timeProps[i]), FALSE),
                      !.device_class =
                          IF truthy(finalTimeDeviceClass) /\ truthy(finalTimeUnit)
                          THEN finalTimeDeviceClass ELSE Undef,
                      !.unit_of_measurement =
                          IF truthy(finalTimeUnit) THEN finalTimeUnit ELSE Undef,
                      !.enabled_by_default = IF service THEN BoolV(FALSE) ELSE UndefV,
                      !.en = IF service THEN BoolV(FALSE) ELSE UndefV,
                      !.entity_category = "diagnostic",
                      !.ent_cat = "diagnostic"]]]

\* the component of a feature that is not skipped, from the chosen property path
\* and the detection of the device
singleComponentAt(featurePath, properties, platform, componentKey, propertyPath, initialDeviceClass, detection) ==
    LET deviceClass == IF truthy(detection.deviceClass) THEN detection.deviceClass
                       ELSE initialDeviceClass
        propKey == split(propertyPath, ".")[1]
        isNumericProperty ==
            hasProp(properties, propKey) /\ getProp(properties, propKey).type = "number"
        valueTemplate ==
            IF detection.unitOfMeasurement = "%" \/ includes(featurePath, "modulation")
            THEN percentageValueTemplate(propertyPath)
            ELSE IF platform = "sensor"
            THEN IF /\ isNumericProperty /\ includes(propertyPath, ".value")
                    /\ ~includes(propertyPath, "[")
                 THEN IF propertyPath = "value.value"
                      THEN "{{ value_json.properties.value.value | float }}"
                      ELSE "{{ value_json.properties."
                              \o replaceFirst(propertyPath, ".value", "")
                              \o ".value | float }}"
                 ELSE safeValueTemplate(propertyPath, FALSE)
            ELSE safeValueTemplate(propertyPath, TRUE)
        unitOfMeasurement ==
            IF deviceClass = "pressure"
            THEN IF truthy(detection.unitOfMeasurement)
                    /\ inArray(validPressureUnits, detection.unitOfMeasurement)
                 THEN detection.unitOfMeasurement ELSE "bar"
            ELSE IF deviceClass = "energy"
            THEN IF truthy(detection.unitOfMeasurement)
                    /\ inArray(validEnergyUnits, detection.unitOfMeasurement)
                 THEN detection.unitOfMeasurement ELSE "kWh"
            ELSE detection.unitOfMeasurement
        numericState ==
            /\ platform = "sensor" /\ ~truthy(deviceClass)
            /\ isNumericProperty
            /\ getProp(properties, propKey).value.t = "number"
            /\ ~includes(propertyPath, "[")
        service == isServiceTechnicianFeature(featurePath)
        entityCategory ==
            IF service THEN "diagnostic"
            ELSE determineEntityCategory(featurePath, platform, deviceClass, properties)
    IN  << [key |-> componentKey,
            c |-> [NewComponent EXCEPT
                     !.platform = platform,
                     !.unique_id = uniqueId(componentKey),
                     !.state_topic = stateTopic(featurePath),
                     !.value_template = valueTemplate,
                     !.device_class =
                         IF truthy(deviceClass) /\ truthy(unitOfMeasurement)
                         THEN deviceClass ELSE Undef,
                     !.unit_of_measurement =
                         IF truthy(unitOfMeasurement) THEN unitOfMeasurement
                         ELSE Undef,
                     !.state_class = IF numericState THEN "measurement" ELSE Undef,
                     !.enabled_by_default = IF service THEN BoolV(FALSE) ELSE UndefV,
                     !.en = IF service THEN BoolV(FALSE) ELSE UndefV,
                     !.entity_category = entityCategory,
                     !.ent_cat = entityCategory]] >>

\* the skip of a temperature or pressure feature with only a non-numeric status
singleComponentFor(featurePath, properties, platform, componentKey, binaryPath, propertyPath) ==
    LET skipped ==
            IF platform = "binary_sensor" THEN binaryPath.path = Null
            ELSE /\ includes(featurePath, "temperature") \/ includes(featurePath, "pressure")
                 /\ propertyPath = "status.value"
                 /\ ~hasProp(properties, "value")
                 /\ getProp(properties, "status").value.t # "number"
    IN  IF skipped THEN <<>>
        ELSE singleComponentAt(featurePath, properties, platform, componentKey, propertyPath,
                               IF platform = "binary_sensor" THEN binaryPath.deviceClass
                               ELSE Undef,
                               detectDeviceClassAndUnit(featurePath, propertyPath, properties))

\* the one sensor or binary_sensor of any other feature; <<>> when it is skipped
singleComponent(featurePath, properties, platform, componentKey) ==
    LET binaryPath == findBinarySensorPropertyPath(featurePath, properties)
    IN  singleComponentFor(featurePath, properties, platform, componentKey, binaryPath,
                           IF platform = "binary_sensor" THEN binaryPath.path
                           ELSE findSensorPropertyPath(featurePath, properties))

\* the components of one feature of the auto-detection pass
autoComponents(feature) ==
    LET featurePath == feature.feature
        properties == feature.properties
        platform == determinePlatform(featurePath, properties)
        componentKey == generateComponentKey(featurePath)
    IN  IF hasCountTimestampPattern(properties) /\ platform = "sensor"
        THEN countComponents(featurePath, properties, componentKey)
        ELSE IF featurePath = "device.configuration"
        THEN configurationComponents(featurePath, properties, componentKey)
        ELSE IF Len(timeBasedProperties(properties)) > 1 /\ platform = "sensor"
        THEN multiTimeComponents(featurePath, properties, componentKey)
        ELSE singleComponent(featurePath, properties, platform, componentKey)

RECURSIVE autoFrom(_, _)
autoFrom(enabledFeatures, cs) ==
    IF enabledFeatures = <<>> THEN cs
    ELSE autoFrom(Tail(enabledFeatures),
                  ObjectAssign(cs, autoComponents(Head(enabledFeatures))))

generateComponentsFromAllFeatures(decorated, fs) ==
    autoFrom(SelectSeq(fs, LAMBDA f :
                /\ ~isCircuitContainerFeature(f.feature)
                /\ ~isListFeature(f.feature)
                /\ f.isEnabled /\ f.properties # <<>>
                /\ ~inArray(decorated, f.feature)), <<>>)

(***************************************************************************)
(* Pass 5: controls for executable commands                                *)
(***************************************************************************)
getExecutableCommands(feature) == SelectSeq(feature.commands, LAMBDA c : c.isExecutable)

buildSingleParamCommandTemplate(paramName, paramType) ==
    IF paramType = "number" THEN "{\"" \o paramName \o "\": {{ value | float }}}"
    ELSE "{\"" \o paramName \o "\": {{ value | tojson }}}"

\* allowedModes = NoList: the parameter has no enum constraint
buildModeCommandTemplate(paramName, allowedModes) ==
    LET hasStandby == inArray(allowedModes, "standby")
        hasHeating == inArray(allowedModes, "heating")
    IN  "{% set mode = value %}{% if mode == \"off\" %}{% set mode = \""
            \o (IF hasStandby THEN "standby" ELSE "off")
            \o "\" %}{% elif mode == \"heat\" %}{% set mode = \""
            \o (IF hasHeating THEN "heating" ELSE "heat")
            \o "\" %}{% elif mode == \"auto\" %}{% set mode = \""
            \o (IF hasHeating THEN "heating" ELSE "auto")
            \o "\" %}{% endif %}{\"" \o paramName \o "\": \"{{ mode }}\"}"

\* semanticMatches[paramName] ?? []
semanticMatches(paramName) ==
    IF paramName \in {"targetTemperature", "targetTemp", "temperature", "temp"}
    THEN <<"temperature", "temp", "value">>
    ELSE IF paramName = "mode" THEN <<"value", "mode">>
    ELSE IF paramName = "gasType" THEN <<"value", "type">>
    ELSE IF paramName = "active" THEN <<"active", "value", "enabled">>
    ELSE IF paramName = "newSchedule" THEN <<"entries", "schedule", "value">>
    ELSE IF paramName = "weekday" THEN <<"weekdays", "weekday", "value">>
    ELSE <<>>

\* ok = FALSE stands for the null result
getCommandStateConfig(feature, paramName) ==
    LET properties == feature.properties
        has(k) == hasProp(properties, k) /\ hasValue(getProp(properties, k))
        candidates == IF inArray(semanticMatches(paramName), "value")
                      THEN semanticMatches(paramName)
                      ELSE Append(semanticMatches(paramName), "value")
        found == SelectSeq(candidates, has)
        propertyName == IF has(paramName) THEN paramName
                        ELSE IF found # <<>> THEN found[1] ELSE Null
        prop == getProp(properties, propertyName)
        isArrayProperty == prop.type = "array" /\ prop.value.t = "array"
        ref == "value_json.properties." \o propertyName \o ".value"
    IN  IF propertyName = Null
        THEN [ok |-> FALSE, state_topic |-> Undef, value_template |-> Undef,
              unit_of_measurement |-> Undef]
        ELSE [ok |-> TRUE,
              state_topic |-> stateTopic(feature.feature),
              value_template |->
                  IF isArrayProperty
                  THEN "{% if " \o ref \o " is defined and " \o ref
                          \o "|length > 0 %}{{ " \o ref \o "[0] }}{% endif %}"
                  ELSE safeValueTemplate(propertyName \o ".value", prop.type = "boolean"),
              unit_of_measurement |->
                  IF truthy(prop.unit) /\ truthy(normalizeUnit(prop.unit, Undef))
                  THEN normalizeUnit(prop.unit, Undef) ELSE Undef]

\* the select, switch, number or text built for one command parameter
controlComponent(platform, featurePath, commandName, param, componentKey, stateConfig, isServiceCommand) ==
    LET base == [NewComponent EXCEPT
                    !.platform = platform,
                    !.unique_id = uniqueId(componentKey),
                    !.command_topic = generateCommandTopic(featurePath, commandName),
                    !.state_topic = stateConfig.state_topic,
                    !.value_template = stateConfig.value_template,
                    !.unit_of_measurement = stateConfig.unit_of_measurement]
        template == buildSingleParamCommandTemplate(param.name, param.type)
        component ==
            IF platform = "select"
            THEN [base EXCEPT !.options = param.enum, !.command_template = template]
            ELSE IF platform = "switch"
            THEN [base EXCEPT !.payload_on = "{\"" \o param.name \o "\": true}",
                              !.payload_off = "{\"" \o param.name \o "\": false}"]
            ELSE IF platform = "number"
            THEN [base EXCEPT !.command_template = template, !.mode = "box",
                              !.min = param.min, !.max = param.max,
                              !.step = param.stepping]
            ELSE [base EXCEPT !.command_template = template]
    IN  addServiceCommandProperties(component, isServiceCommand)

\* components[key] || commandComponents[key]
keyTaken(st, key) == hasKey(st.components, key) \/ hasKey(st.commandComponents, key)

\* the platform chosen for a parameter; Undef: no control for it
paramPlatform(param, single) ==
    IF param.enum # NoList /\ param.type = "string" THEN "select"
    ELSE IF param.type = "boolean" THEN "switch"
    ELSE IF param.type = "number" THEN "number"
    ELSE IF single THEN "text" ELSE Undef

\* the parameters of a multi-parameter command, each with a state property
RECURSIVE multiParamFrom(_, _, _, _, _)
multiParamFrom(params, feature, commandName, isServiceCommand, st) ==
    IF params = <<>> THEN st
    ELSE LET param == Head(params)
             stateConfig == getCommandStateConfig(feature, param.name)
             key == toLowerCase(generateComponentKey(feature.feature) \o "_"
                                    \o commandName \o "_" \o param.name)
             platform == paramPlatform(param, FALSE)
             next ==
                IF ~stateConfig.ok \/ keyTaken(st, key) THEN st
                ELSE IF isNullParam(param) THEN [st EXCEPT !.thrown = TRUE]
                ELSE IF platform = Undef THEN st
                ELSE [st EXCEPT !.commandComponents =
                        putKey(@, key, controlComponent(platform, feature.feature,
                                    commandName, param, key, stateConfig,
                                    isServiceCommand))]
         IN  IF next.thrown THEN next
             ELSE multiParamFrom(Tail(params), feature, commandName, isServiceCommand, next)

\* the slope and shift numbers of a setCurve command
RECURSIVE setCurveFrom(_, _, _, _)
setCurveFrom(params, feature, isServiceCommand, st) ==
    IF params = <<>> THEN st
    ELSE LET param == Head(params)
             stateConfig == getCommandStateConfig(feature, param.name)
             key == toLowerCase(generateComponentKey(feature.feature)
                                    \o "_setCurve_" \o param.name)
             next ==
                IF keyTaken(st, key) \/ ~stateConfig.ok THEN st
                ELSE IF isNullParam(param) THEN [st EXCEPT !.thrown = TRUE]
                ELSE [st EXCEPT !.commandComponents =
                        putKey(@, key, controlComponent("number", feature.feature,
                                    "setCurve", param, key, stateConfig,
                                    isServiceCommand))]
         IN  IF next.thrown THEN next
             ELSE setCurveFrom(Tail(params), feature, isServiceCommand, next)

\* the read-only sensor that shows the schedule of a Schedule-typed command
scheduleSensor(feature, isServiceCommand, st) ==
    LET properties == feature.properties
        entries == getProp(properties, "entries")
        value == entries.value
        hasScheduleValue ==
            /\ value.t \notin {"undefined", "null"}
            /\ value.t = "object" => value.k > 0
            /\ value.t = "array" => Len(value.a) > 0
        key == toLowerCase(generateComponentKey(feature.feature) \o "_schedule")
        component ==
            [NewComponent EXCEPT
                !.platform = "sensor",
                !.unique_id = uniqueId(key),
                !.state_topic = stateTopic(feature.feature),
                !.value_template =
                    "{% if value_json.properties.entries.value is defined %}"
                    \o "{% set sched = value_json.properties.entries.value %}"
                    \o "{% if sched is mapping %}{{ sched.keys() | list | length }} days"
                    \o "{% else %}configured{% endif %}{% else %}not configured{% endif %}",
                !.json_attributes_topic = stateTopic(feature.feature),
                !.json_attributes_template =
                    "{{ value_json.properties.entries.value | tojson }}"]
    IN  IF /\ hasProp(properties, "entries") /\ entries.type = "Schedule"
           /\ hasScheduleValue /\ ~keyTaken(st, key)
        THEN [st EXCEPT !.commandComponents =
                putKey(@, key, addServiceCommandProperties(component, isServiceCommand))]
        ELSE st

\* a faulty variant that creates a control even where a sensor could be enhanced
singleParamAlwaysNew(feature, commandName, param, isServiceCommand, st) ==
    LET key == toLowerCase(generateComponentKey(feature.feature) \o "_"
                               \o commandName \o "_" \o param.name)
        stateConfig == getCommandStateConfig(feature, param.name)
    IN  IF keyTaken(st, key) \/ ~stateConfig.ok THEN st
        ELSE [st EXCEPT !.commandComponents =
                putKey(@, key, controlComponent(paramPlatform(param, TRUE),
                            feature.feature, commandName, param, key, stateConfig,
                            isServiceCommand))]

\* a single-parameter command: an existing sensor of the feature gains the
\* command, or a new control is created
singleParam(feature, commandName, param, isServiceCommand, st) ==
    LET key == toLowerCase(generateComponentKey(feature.feature) \o "_"
                               \o commandName \o "_" \o param.name)
        stateConfig == getCommandStateConfig(feature, param.name)
        existingFeatureComponents ==
            SelectSeq(st.components, LAMBDA e :
                /\ extractFeaturePath(e.c.state_topic) = feature.feature
                /\ e.c.platform = "sensor")
        hasMatchingProperty ==
            \E k \in {param.name} \cup
                     {semanticMatches(param.name)[i] :
                        i \in 1..Len(semanticMatches(param.name))} :
                hasProp(feature.properties, k) /\ hasValue(getProp(feature.properties, k))
        existing == existingFeatureComponents[1]
        withTopic == [existing.c EXCEPT
                        !.command_topic = generateCommandTopic(feature.feature, commandName)]
        withNumber ==
            IF param.type # "number" THEN withTopic
            ELSE [withTopic EXCEPT
                    !.command_template =
                        buildSingleParamCommandTemplate(param.name, param.type),
                    !.min = IF param.min # UndefV THEN param.min ELSE @,
                    !.max = IF param.max # UndefV THEN param.max ELSE @,
                    !.step = IF param.stepping # UndefV THEN param.stepping ELSE @]
    IN  IF keyTaken(st, key) THEN st
        ELSE IF existingFeatureComponents # <<>> /\ stateConfig.ok /\ hasMatchingProperty
        THEN IF truthy(existing.c.command_topic) THEN st
             ELSE [st EXCEPT !.components =
                    putKey(@, existing.key,
                           addServiceCommandProperties(withNumber, isServiceCommand))]
        ELSE IF ~stateConfig.ok THEN st
        ELSE [st EXCEPT !.commandComponents =
                putKey(@, key, controlComponent(paramPlatform(param, TRUE),
                            feature.feature, commandName, param, key, stateConfig,
                            isServiceCommand))]

\* one executable command of a feature
commandComponent(feature, command, hasClimate, st) ==
    LET commandName == command.name
        params == command.params
        isServiceCommand == isServiceTechnicianCommand(commandName, feature.feature)
        buttonKey == toLowerCase(generateComponentKey(feature.feature) \o "_" \o commandName)
        button == [NewComponent EXCEPT
                    !.platform = "button",
                    !.unique_id = uniqueId(buttonKey),
                    !.command_topic = generateCommandTopic(feature.feature, commandName),
                    !.payload_press = "{}"]
        slope == SelectSeq(params, LAMBDA q : q.name = "slope")
        shift == SelectSeq(params, LAMBDA q : q.name = "shift")
    IN  IF commandName = "setMode" /\ hasClimate THEN st
        ELSE IF params = <<>>
        THEN IF keyTaken(st, buttonKey) THEN st
             ELSE [st EXCEPT !.commandComponents =
                    putKey(@, buttonKey,
                           addServiceCommandProperties(button, isServiceCommand))]
        ELSE IF commandName = "setCurve" /\ slope # <<>> /\ shift # <<>>
        THEN setCurveFrom(<<slope[1], shift[1]>>, feature, isServiceCommand, st)
        ELSE IF Len(params) = 1 /\ isNullParam(params[1])
        THEN [st EXCEPT !.thrown = TRUE]
        ELSE IF Len(params) = 1 /\ params[1].type = "Schedule"
        THEN scheduleSensor(feature, isServiceCommand, st)
        ELSE IF Len(params) = 1
        THEN singleParam(feature, commandName, params[1], isServiceCommand, st)
        ELSE multiParamFrom(params, feature, commandName, isServiceCommand, st)

RECURSIVE commandsFrom(_, _, _, _)
commandsFrom(commands, feature, hasClimate, st) ==
    IF commands = <<>> \/ st.thrown THEN st
    ELSE commandsFrom(Tail(commands), feature, hasClimate,
                      commandComponent(feature, Head(commands), hasClimate, st))

RECURSIVE commandFeaturesFrom(_, _, _)
commandFeaturesFrom(fs, byFeature, st) ==
    IF fs = <<>> \/ st.thrown THEN st
    ELSE LET feature == Head(fs)
             \* componentsByFeature.get(feature.feature) has a climate
             hasClimate == \E i \in 1..Len(byFeature) :
                              /\ extractFeaturePath(byFeature[i].c.state_topic) = feature.feature
                              /\ byFeature[i].c.platform = "climate"
         IN  IF \/ isCircuitContainerFeature(feature.feature)
                \/ isListFeature(feature.feature)
                \/ getExecutableCommands(feature) = <<>>
             THEN commandFeaturesFrom(Tail(fs), byFeature, st)
             ELSE commandFeaturesFrom(Tail(fs), byFeature,
                    commandsFrom(getExecutableCommands(feature), feature, hasClimate, st))

\* returns the components, some enhanced in place, and the new command
\* components; thrown: the read of a null parameter definition raised a TypeError
generateCommandComponentsFromFeatures(cs, fs) ==
    commandFeaturesFrom(fs, cs,
        [components |-> cs, commandComponents |-> <<>>, thrown |-> FALSE])

(***************************************************************************)
(* Pass 6: command wiring of climate components, and the final filter      *)
(***************************************************************************)
\* the wiring of one climate component
climateWithCommands(component, fs) ==
    LET featurePath == extractFeaturePath(component.state_topic)
        \* featureMap.get(featurePath): the last feature of that path
        withPath == {i \in 1..Len(fs) : fs[i].feature = featurePath}
        feature == fs[CHOOSE i \in withPath : \A j \in withPath : j <= i]
        commands == feature.commands
        named == SelectSeq(commands, LAMBDA c : c.name = "setMode")
        withMode == SelectSeq(commands, LAMBDA c :
                        \E i \in 1..Len(c.params) : c.params[i].name = "mode")
        modeCommand == IF named # <<>> THEN named ELSE withMode
        modeParam == IF modeCommand[1].params = <<>>
                     THEN Param("mode", "string", FALSE, UndefV, UndefV, UndefV, NoList)
                     ELSE modeCommand[1].params[1]
        temperatureCommand == SelectSeq(commands, LAMBDA c :
                        /\ Len(c.params) = 1 /\ c.isExecutable
                        /\ c.params[1].type = "number"
                        /\ includes(toLowerCase(c.params[1].name), "temperature"))
        wiredMode ==
            IF /\ ~truthy(component.mode_command_topic)
               /\ modeCommand # <<>> /\ modeCommand[1].isExecutable
            THEN [component EXCEPT
                    !.mode_command_topic =
                        generateCommandTopic(featurePath, modeCommand[1].name),
                    !.mode_command_template =
                        buildModeCommandTemplate(modeParam.name, modeParam.enum)]
            ELSE component
    IN  IF featurePath = Null \/ withPath = {} \/ commands = <<>> THEN component
        ELSE IF ~truthy(wiredMode.temperature_command_topic) /\ temperatureCommand # <<>>
        THEN [wiredMode EXCEPT
                !.temperature_command_topic =
                    generateCommandTopic(featurePath, temperatureCommand[1].name),
                !.temperature_command_template =
                    buildSingleParamCommandTemplate(temperatureCommand[1].params[1].name,
                                                    temperatureCommand[1].params[1].type)]
        ELSE wiredMode

enhanceComponentsWithCommands(cs, fs) ==
    [i \in 1..Len(cs) |->
        IF cs[i].c.platform # "climate" THEN cs[i]
        ELSE [key |-> cs[i].key, c |-> climateWithCommands(cs[i].c, fs)]]

\* the final filter: no component of a circuit container or of a list feature
filteredComponents(cs) ==
    SelectSeq(cs, LAMBDA e :
        LET featurePath == extractFeaturePath(e.c.state_topic)
        IN  ~(featurePath # Null /\ isCircuitContainerFeature(featurePath))
            /\ ~(featurePath # Null /\ isListFeature(featurePath)))

(***************************************************************************)
(* The feature lists synthesis is run on                                   *)
(***************************************************************************)
\* shorthands for the shapes of the vendor API
NumParam(name, min, max, stepping) ==
    Param(name, "number", TRUE, NumV(min), NumV(max), NumV(stepping), NoList)

PlainParam(name, type) == Param(name, type, TRUE, UndefV, UndefV, UndefV, NoList)

TimeSeries(path, unit) ==
    Feature(path, TRUE,
            << Prop("day", "array", ArrV(<<NumV(12)>>), unit),
               Prop("week", "array", ArrV(<<NumV(80)>>), unit) >>, <<>>)

DhwTemperature(isEnabled) ==
    Feature("heating.dhw.temperature.main", isEnabled,
            << Prop("value", "number", NumV(50), "celsius") >>,
            << Cmd("setTargetTemperature", TRUE, <<NumParam("temperature", 10, 60, 1)>>) >>)

RoomTemperature(circuitId, value) ==
    Feature("heating.circuits." \o circuitId \o ".sensors.temperature.room", TRUE,
            << Prop("status", "string", StrV("connected"), Undef),
               Prop("value", "number", value, "celsius") >>, <<>>)

ScheduleFeature(path) ==
    Feature(path, TRUE,
            << Prop("active", "boolean", BoolV(TRUE), Undef),
               Prop("entries", "Schedule", ObjV(1), Undef) >>,
            << Cmd("reset", TRUE, <<>>),
               Cmd("setSchedule", TRUE, <<PlainParam("newSchedule", "Schedule")>>) >>)

\* circuit 1 with its operating mode, whose setMode command allows the modes
CircuitOne(modes) ==
    << Feature("heating.circuits", TRUE,
               << Prop("enabled", "array", ArrV(<<"1">>), Undef) >>, <<>>),
       Feature("heating.circuits.1", TRUE,
               << Prop("active", "boolean", BoolV(TRUE), Undef),
                  Prop("name", "string", StrV("Floor"), Undef) >>, <<>>),
       Feature("heating.circuits.1.operating.modes.active", TRUE,
               << Prop("value", "string", StrV(modes[Len(modes)]), Undef) >>,
               << Cmd("setMode", TRUE,
                      << Param("mode", "string", TRUE, UndefV, UndefV, UndefV,
                               modes) >>) >>),
       Feature("heating.circuits.1.operating.programs.active", TRUE,
               << Prop("value", "string", StrV("normal"), Undef) >>, <<>>),
       Feature("heating.circuits.1.operating.programs.normal", TRUE,
               << Prop("active", "boolean", BoolV(TRUE), Undef),
                  Prop("temperature", "number", NumV(21), "celsius") >>,
               << Cmd("setTemperature", TRUE,
                      <<NumParam("targetTemperature", 3, 37, 1)>>) >>) >>

\* the feature groups a device can report; a feature list is a selection of them
Catalogue ==
    << <<TimeSeries("heating.gas.consumption.heating", "cubicMeter")>>,
       <<TimeSeries("heating.gas.consumption.heating", "kilowattHour")>>,
       <<TimeSeries("heating.power.consumption.total", "kilowattHour")>>,
       << Feature("heating.sensors.temperature.outside", TRUE,
                  << Prop("status", "string", StrV("connected"), Undef),
                     Prop("value", "number", NumV(5), "celsius") >>, <<>>) >>,
       << Feature("heating.sensors.pressure.supply", TRUE,
                  << Prop("status", "string", StrV("connected"), Undef),
                     Prop("value", "number", NumV(2), "bar") >>, <<>>) >>,
       <<DhwTemperature(FALSE)>>,
       <<DhwTemperature(TRUE)>>,
       CircuitOne(<<"standby", "heating">>),
       <<RoomTemperature("1", NullV)>>,
       <<RoomTemperature("2", NumV(21))>>,
       << Feature("device.setDefaultValues", TRUE, <<>>, <<Cmd("reset", TRUE, <<>>)>>) >>,
       <<ScheduleFeature("heating.circuits.1.heating.schedule")>>,
       <<ScheduleFeature("heating.circuits.1.operating.programs.screedDrying.schedule")>>,
       << Feature("heating.circuits.2.operating.programs.screedDrying", TRUE,
                  << Prop("active", "boolean", BoolV(FALSE), Undef),
                     Prop("profile", "string", StrV("none"), Undef) >>, <<>>) >>,
       << Feature("heating.dhw.temperature.hysteresis", TRUE,
                  << Prop("value", "number", NumV(5), "kelvin") >>,
                  << Cmd("setHysteresis", TRUE, <<NumParam("hysteresis", 1, 10, 1)>>),
                     Cmd("setHysteresisSwitchOnValue", TRUE,
                         <<NumParam("temperature", 1, 10, 1)>>) >>) >>,
       << Feature("heating.burners.0.statistics.history", TRUE,
                  << Prop("countOne", "number", NumV(3), Undef),
                     Prop("timestampOne", "string", StrV("2026-01-16"), Undef),
                     Prop("countTwo", "number", NumV(5), Undef),
                     Prop("timestampTwo", "string", StrV("2026-01-15"), Undef) >>,
                  <<>>) >>,
       << Feature("heating.circuits.1.circulation.pump", TRUE,
                  << Prop("status", "string", StrV("on"), Undef) >>, <<>>) >>,
       << Feature("heating.circuits.1.heating.curve", TRUE,
                  << Prop("shift", "number", NumV(0), Undef),
                     Prop("slope", "number", NumV(1), Undef) >>,
                  << Cmd("setCurve", TRUE,
                         << NumParam("slope", 0, 3, 1), NumParam("shift", 0, 40, 1) >>) >>) >>,
       << Feature("device.configuration", TRUE,
                  << Prop("dhwActive", "boolean", BoolV(TRUE), Undef),
                     Prop("roles", "array", ArrV(<<"type:boiler">>), Undef) >>, <<>>) >>,
       << Feature("heating.circuits.1.operating.programs.holiday", TRUE,
                  << Prop("active", "boolean", BoolV(FALSE), Undef),
                     Prop("start", "string", StrV(""), Undef),
                     Prop("end", "string", StrV(""), Undef) >>,
                  << Cmd("changeEndDate", TRUE, <<PlainParam("end", "string")>>),
                     Cmd("schedule", TRUE,
                         << PlainParam("start", "string"), PlainParam("end", "string") >>),
                     Cmd("unschedule", FALSE, <<>>) >>) >>,
       << Feature("heating.circuits.1.heating.curve", TRUE,
                  << Prop("shift", "number", NumV(0), Undef) >>, <<>>) >>,
       << Feature("heating.dhw.oneTimeCharge", TRUE,
                  << Prop("active", "boolean", BoolV(FALSE), Undef) >>,
                  << Cmd("activate", TRUE, <<NullParam("mode")>>) >>) >>,
       <<TimeSeries("heating.gas.consumption.heating", "wattHour")>>,
       << Feature("device.variant", TRUE,
                  << Prop("value", "string", StrV("Vitodens"), Undef) >>, <<>>),
          Feature("heating.device.variant", TRUE,
                  << Prop("value", "string", StrV("Vitodens"), Undef) >>, <<>>) >> >>

\* how many feature groups one feature list is made of, at most
MaxGroups == 2

\* the groups of a selection in the order of the catalogue; 0 selects nothing
RECURSIVE featuresOf(_)
featuresOf(selection) ==
    IF selection = <<>> THEN <<>>
    ELSE (IF Head(selection) = 0 THEN <<>> ELSE Catalogue[Head(selection)])
            \o featuresOf(Tail(selection))

Selections ==
    { sel \in [1..MaxGroups -> 0..Len(Catalogue)] :
        \A i \in 1..(MaxGroups - 1) :
            sel[i] <= sel[i + 1] /\ (sel[i] # 0 => sel[i] < sel[i + 1]) }

(***************************************************************************)
(* The device factory: DeviceFactory.createDevice applied to bounded inputs *)
(***************************************************************************)
\* one entry of deviceTypes; modelPattern is the list of alternatives of the
\* regular expression, matchAll stands for the pattern .*
DeviceType(creator, modelPattern, matchAll, rolePatterns) ==
    [creator |-> creator, modelPattern |-> modelPattern, matchAll |-> matchAll,
     rolePatterns |-> rolePatterns]

deviceTypes ==
    << DeviceType("FuelCell", <<"Vitovalor", "Vitocharge", "Vitoblo">>, FALSE, <<>>),
       DeviceType("GazBoiler",
                  <<"Vitodens", "VScotH", "Vitocrossal", "VDensH", "Vitopend", "VPendH",
                    "OT_Heating_System">>, FALSE, << <<"type:boiler">> >>),
       DeviceType("HeatPump", <<"Vitocal", "VBC70", "V200WO1A", "CU401B">>, FALSE,
                  << <<"type:heatpump">> >>),
       DeviceType("Hybrid", <<>>, TRUE, <<>>) >>

\* roles.some(r => r.includes(marker))
hasRole(rs, marker) == \E i \in 1..Len(rs) : includes(rs[i], marker)

\* rolePatterns.some(rolePattern => rolePattern.every(role => roles.includes(role)))
matchesRole(deviceType, rs) ==
    \E p \in 1..Len(deviceType.rolePatterns) :
        \A r \in 1..Len(deviceType.rolePatterns[p]) :
            inArray(rs, deviceType.rolePatterns[p][r])

\* modelPattern.test(modelId), case-insensitive and unanchored; an undefined
\* model id is tested as the string "undefined"
matchesModel(deviceType, id) ==
    LET str == IF id = Undef THEN "undefined" ELSE id
    IN  \/ deviceType.matchAll
        \/ \E a \in 1..Len(deviceType.modelPattern) :
              includes(toLowerCase(str), toLowerCase(deviceType.modelPattern[a]))

\* the loop over deviceTypes taken from the last entry to the first
RECURSIVE lastMatch(_, _, _)
lastMatch(types, rs, id) ==
    IF types = <<>> THEN "HeatingDevice"
    ELSE LET deviceType == types[Len(types)]
         IN  IF matchesRole(deviceType, rs) \/ matchesModel(deviceType, id)
             THEN deviceType.creator
             ELSE lastMatch(SubSeq(types, 1, Len(types) - 1), rs, id)

\* the loop over deviceTypes, and the default after it
RECURSIVE firstMatch(_, _, _)
firstMatch(types, rs, id) ==
    IF types = <<>> THEN "HeatingDevice"
    ELSE LET deviceType == Head(types)
         IN  IF matchesRole(deviceType, rs) \/ matchesModel(deviceType, id)
             THEN deviceType.creator
             ELSE firstMatch(Tail(types), rs, id)

createDevice(rs, id) ==
    IF hasRole(rs, "type:boiler") /\ hasRole(rs, "type:heatpump")
    THEN "Hybrid"
    ELSE firstMatch(deviceTypes, rs, id)

\* model ids of the vendor's families, of no family, of two families, and none
ModelIds ==
    { "Vitovalor PT2", "Vitodens-200", "vitodens 100-W", "Vitocal 250-A",
      "Vitocal-Vitodens", "E3_TCU41_x04", "", Undef }

AllRoles == <<"type:boiler", "type:heatpump", "type:heating;integrated", "type:boiler;legacy">>

\* the role arrays: every sub-list of AllRoles
RoleLists ==
    { SelectSeq(AllRoles, LAMBDA r : r \in chosen) :
        chosen \in SUBSET {AllRoles[i] : i \in 1..Len(AllRoles)} }

\* no synthesis, unit, factory or store call is under way
discoveryIdle ==
    /\ variant = "none"
    /\ features = <<>>
    /\ components = <<>>
    /\ decoratedFeaturePaths = <<>>
    /\ passOut = <<>>
    /\ run = 0
    /\ doc1 = <<>>
    /\ doc2 = <<>>
    /\ dataPointsCache = Null
    /\ unitIn = Undef
    /\ classIn = Undef
    /\ unitOut = Undef
    /\ modelId = Undef
    /\ roles = <<>>
    /\ device = Undef
    /\ valueName = Undef
    /\ valuePath = Undef
    /\ valueOut = UndefV

\* no mode wiring is under way
modeIdle == modeEnum = <<>> /\ wired = <<>>

\* no poll loop is running
pollIdle ==
    /\ apiData = <<>>
    /\ settled = FALSE
    /\ cur = 0
    /\ changedData = <<>>
    /\ sendAt = 0
    /\ previousMap = <<>>
    /\ delivered = <<>>

\* none of the service machines is under way
\* no command message is being handled
commandIdle ==
    /\ messageTopic = ""
    /\ payloadText = ""
    /\ fresh = <<>>
    /\ executed = <<>>

\* no call of the API is running
tokenIdle ==
    /\ token = 0
    /\ promises = <<>>
    /\ callers = <<>>

serviceIdle == modeIdle /\ pollIdle /\ commandIdle /\ tokenIdle

InitFactory ==
    /\ pc = "factory"
    /\ variant = "none"
    /\ features = <<>>
    /\ components = <<>>
    /\ decoratedFeaturePaths = <<>>
    /\ passOut = <<>>
    /\ run = 0
    /\ doc1 = <<>>
    /\ doc2 = <<>>
    /\ dataPointsCache = Null
    /\ unitIn = Undef
    /\ classIn = Undef
    /\ unitOut = Undef
    /\ modelId \in ModelIds
    /\ roles \in RoleLists
    /\ device = Undef
    /\ valueName = Undef
    /\ valuePath = Undef
    /\ valueOut = UndefV
    /\ serviceIdle

CreateDevice ==
    /\ pc = "factory"
    /\ device' = createDevice(roles, modelId)
    /\ pc' = "created"
    /\ UNCHANGED <<variant, features, components, decoratedFeaturePaths, passOut,
                   run, doc1, doc2, dataPointsCache, unitIn, classIn, unitOut,
                   modelId, roles, valueName, valuePath, valueOut,
                   serviceVars>>

(***************************************************************************)
(* The feature store: getProperty and getPropertyValue on bounded inputs    *)
(***************************************************************************)
\* the features the device was constructed with
StoreFeatures ==
    << Feature("heating.sensors.temperature.outside", TRUE,
               << Prop("value", "number", NumV(7), "celsius"),
                  Prop("status", "string", StrV("connected"), Undef) >>, <<>>),
       Feature("heating.circuits", TRUE,
               << Prop("enabled", "array", ArrV(<<StrV("0"), StrV("1")>>), Undef) >>, <<>>),
       Feature("heating.dhw.temperature.main", FALSE,
               << Prop("value", "number", NumV(50), "celsius") >>, <<>>),
       Feature("heating.dhw.schedule", TRUE,
               << Prop("active", "boolean", NullV, Undef),
                  Prop("entries", "Schedule",
                       ObjT(<< [key |-> "mon", v |-> ArrV(<<>>)],
                               [key |-> "value",
                                v |-> ObjT(<< [key |-> "value", v |-> NumV(5)] >>)] >>),
                       Undef) >>, <<>>),
       Feature("heating.boiler.serial", TRUE, <<>>, <<>>) >>

\* feature paths the device is asked for: stored ones and one it does not have
StoreNames ==
    { StoreFeatures[i].feature : i \in 1..Len(StoreFeatures) } \cup {"heating.solar"}

\* property paths: one and more parts, present and missing, through values
\* that are objects, arrays, strings, numbers and null
StorePaths ==
    { "value", "value.value", "value.unit", "value.value.value", "value.missing",
      "status", "status.value", "status.value.length", "enabled", "enabled.value",
      "enabled.value.1", "enabled.value.7", "enabled.value.1.x", "active",
      "active.value", "active.value.x", "entries", "entries.value",
      "entries.value.value", "entries.value.value.value", "entries.value.mon",
      "entries.value.mon.0", "missing", "missing.value", "" }

InitStore ==
    /\ pc = "store"
    /\ variant = "none"
    /\ features = StoreFeatures
    /\ components = <<>>
    /\ decoratedFeaturePaths = <<>>
    /\ passOut = <<>>
    /\ run = 0
    /\ doc1 = <<>>
    /\ doc2 = <<>>
    /\ dataPointsCache = Null
    /\ unitIn = Undef
    /\ classIn = Undef
    /\ unitOut = Undef
    /\ modelId = Undef
    /\ roles = <<>>
    /\ device = Undef
    /\ valueName \in StoreNames
    /\ valuePath \in StorePaths
    /\ valueOut = UndefV
    /\ serviceIdle

\* this.getPropertyValue(this.getProperty(propertyName), propertyPath)
GetPropertyValue ==
    /\ pc = "store"
    /\ valueOut' = getPropertyValue(features, getProperty(features, valueName), valuePath)
    /\ pc' = "value"
    /\ UNCHANGED <<variant, features, components, decoratedFeaturePaths, passOut,
                   run, doc1, doc2, dataPointsCache, unitIn, classIn, unitOut,
                   modelId, roles, device, valueName, valuePath,
                   serviceVars>>

(***************************************************************************)
(* The unit machine: normalizeUnit applied to bounded inputs               *)
(***************************************************************************)
\* units as the vendor API spells them, units it does not know, and no unit
VendorUnits ==
    { "kilowattHour", "kilowattHour/year", "cubicMeter", "m³", "liter", "bar",
      "celsius", "fahrenheit", "kelvin", "hour", "minute", "second", "watt",
      "kilowatt", "megawatt", "liter/hour", "meter", "degree", "percent",
      "kilowattHourPerCubicMeter", "KILOWATTHOUR", "Bar", "gallon", "mbar",
      "wattHour", "", Undef, Null }

DeviceClasses == { Undef, "energy", "pressure", "temperature", "power" }

InitUnit ==
    /\ pc = "unit"
    /\ variant = "none"
    /\ features = <<>>
    /\ components = <<>>
    /\ decoratedFeaturePaths = <<>>
    /\ passOut = <<>>
    /\ run = 0
    /\ doc1 = <<>>
    /\ doc2 = <<>>
    /\ dataPointsCache = Null
    /\ unitIn = Undef
    /\ classIn = Undef
    /\ unitOut = Undef
    /\ modelId = Undef
    /\ roles = <<>>
    /\ device = Undef
    /\ valueName = Undef
    /\ valuePath = Undef
    /\ valueOut = UndefV
    /\ serviceIdle

NormalizeUnitCall ==
    /\ pc \in {"unit", "unit_done"}
    /\ \E u \in VendorUnits, c \in DeviceClasses :
        /\ unitIn' = u
        /\ classIn' = c
        /\ unitOut' = normalizeUnit(u, c)
    /\ pc' = "unit_done"
    /\ UNCHANGED <<variant, features, components, decoratedFeaturePaths, passOut,
                   run, doc1, doc2, dataPointsCache, modelId, roles, device,
                   valueName, valuePath, valueOut,
                   serviceVars>>

(***************************************************************************)
(* Synthesis: generateDeviceDiscoveryConfig, pass by pass, called twice     *)
(***************************************************************************)
InitSynth ==
    /\ pc = "start"
    /\ variant \in Variants
    /\ \E sel \in Selections : features = featuresOf(sel)
    /\ components = <<>>
    /\ decoratedFeaturePaths = <<>>
    /\ passOut = <<>>
    /\ run = 1
    /\ doc1 = <<>>
    /\ doc2 = <<>>
    /\ dataPointsCache = Null
    /\ unitIn = Undef
    /\ classIn = Undef
    /\ unitOut = Undef
    /\ modelId = Undef
    /\ roles = <<>>
    /\ device = Undef
    /\ valueName = Undef
    /\ valuePath = Undef
    /\ valueOut = UndefV
    /\ serviceIdle

\* getDataPoints() after getFeatureName was or was not called
getDataPoints(cache, called) == IF called THEN "loaded" ELSE cache

\* lines 138-159
DecoratorPass ==
    /\ pc = "start"
    /\ passOut' = generateComponentsFromDecorators(variant, features)
    /\ decoratedFeaturePaths' = trackFeaturePaths(<<>>, passOut')
    /\ components' = ObjectAssign(<<>>, passOut')
    /\ dataPointsCache' = getDataPoints(dataPointsCache, passOut' # <<>>)
    /\ pc' = "decorated"
    /\ UNCHANGED <<variant, features, run, doc1, doc2, unitIn, classIn, unitOut,
                   modelId, roles, device,
                   valueName, valuePath, valueOut,
                   serviceVars>>

\* line 165
EnhancePass ==
    /\ pc = "decorated"
    /\ components' = enhanceComponentsFromFeatures(components, features)
    /\ passOut' = components'
    /\ pc' = "enhanced"
    /\ UNCHANGED <<variant, features, decoratedFeaturePaths, run, doc1, doc2,
                   dataPointsCache, unitIn, classIn, unitOut,
                   modelId, roles, device,
                   valueName, valuePath, valueOut,
                   serviceVars>>

\* lines 167-194
DevicePass ==
    /\ pc = "enhanced"
    /\ passOut' = generateHomeAssistantComponents(variant, features)
    /\ decoratedFeaturePaths' = trackFeaturePaths(decoratedFeaturePaths, passOut')
    /\ components' = ObjectAssign(components, passOut')
    /\ dataPointsCache' = getDataPoints(dataPointsCache, passOut' # <<>>)
    /\ pc' = "device"
    /\ UNCHANGED <<variant, features, run, doc1, doc2, unitIn, classIn, unitOut,
                   modelId, roles, device,
                   valueName, valuePath, valueOut,
                   serviceVars>>

\* lines 196-202
AutoPass ==
    /\ pc = "device"
    /\ passOut' = generateComponentsFromAllFeatures(decoratedFeaturePaths, features)
    /\ components' = ObjectAssign(components, passOut')
    /\ dataPointsCache' = getDataPoints(dataPointsCache,
            \E i \in 1..Len(features) :
                /\ ~isCircuitContainerFeature(features[i].feature)
                /\ ~isListFeature(features[i].feature)
                /\ features[i].isEnabled /\ features[i].properties # <<>>
                /\ ~inArray(decoratedFeaturePaths, features[i].feature))
    /\ pc' = "auto"
    /\ UNCHANGED <<variant, features, decoratedFeaturePaths, run, doc1, doc2,
                   unitIn, classIn, unitOut,
                   modelId, roles, device,
                   valueName, valuePath, valueOut,
                   serviceVars>>

\* lines 204-209
CommandPass ==
    /\ pc = "auto"
    /\ LET st == generateCommandComponentsFromFeatures(components, features)
       IN  IF st.thrown
           THEN /\ passOut' = <<>>
                /\ components' = st.components
                /\ pc' = "thrown"
           ELSE /\ passOut' = st.commandComponents
                /\ components' = ObjectAssign(st.components, st.commandComponents)
                /\ pc' = "commands"
    /\ dataPointsCache' = getDataPoints(dataPointsCache,
            \E i \in 1..Len(features) :
                /\ ~isCircuitContainerFeature(features[i].feature)
                /\ ~isListFeature(features[i].feature)
                /\ getExecutableCommands(features[i]) # <<>>)
    /\ UNCHANGED <<variant, features, decoratedFeaturePaths, run, doc1, doc2,
                   unitIn, classIn, unitOut,
                   modelId, roles, device,
                   valueName, valuePath, valueOut,
                   serviceVars>>

\* line 212
ClimatePass ==
    /\ pc = "commands"
    /\ components' = enhanceComponentsWithCommands(components, features)
    /\ passOut' = components'
    /\ pc' = "wired"
    /\ UNCHANGED <<variant, features, decoratedFeaturePaths, run, doc1, doc2,
                   dataPointsCache, unitIn, classIn, unitOut,
                   modelId, roles, device,
                   valueName, valuePath, valueOut,
                   serviceVars>>

\* lines 214-236: the document returned to the caller
ReturnDocument ==
    /\ pc = "wired"
    /\ passOut' = filteredComponents(components)
    /\ doc1' = IF run = 1 THEN passOut' ELSE doc1
    /\ doc2' = IF run = 2 THEN passOut' ELSE doc2
    /\ pc' = "done"
    /\ UNCHANGED <<variant, features, components, decoratedFeaturePaths, run,
                   dataPointsCache, unitIn, classIn, unitOut,
                   modelId, roles, device,
                   valueName, valuePath, valueOut,
                   serviceVars>>

\* the caller runs synthesis again on the same device and feature list
CallAgain ==
    /\ pc = "done"
    /\ run = 1
    /\ run' = 2
    /\ components' = <<>>
    /\ decoratedFeaturePaths' = <<>>
    /\ passOut' = <<>>
    /\ pc' = "start"
    /\ UNCHANGED <<variant, features, doc1, doc2, dataPointsCache,
                   unitIn, classIn, unitOut,
                   modelId, roles, device,
                   valueName, valuePath, valueOut,
                   serviceVars>>

(***************************************************************************)
(* The mode wiring: the climate of circuit 1 built from its registration   *)
(* and wired to the setMode command of a bounded choice of mode lists      *)
(***************************************************************************)
\* the mode lists of setMode as the vendor API reports them
ModeEnums ==
    { <<"standby", "heating">>,
      <<"standby", "heating", "cooling", "heatingCooling">>,
      <<"dhw", "dhwAndHeating", "forcedNormal", "forcedReduced", "standby">>,
      <<"dhw", "dhwAndHeating">>,
      <<"off", "heat", "auto">> }

InitMode ==
    /\ pc = "mode"
    /\ discoveryIdle
    /\ modeEnum \in ModeEnums
    /\ wired = <<>>
    /\ pollIdle
    /\ commandIdle
    /\ tokenIdle

\* generateCircuitClimateComponents on the registered climate, then
\* enhanceComponentsWithCommands
WireClimate ==
    /\ pc = "mode"
    /\ wired' = enhanceComponentsWithCommands(
                    generateComponentsFromMetadata("circuitClimates",
                        complexStore("circuitClimates", "HeatingDevice"),
                        CircuitOne(modeEnum), <<>>),
                    CircuitOne(modeEnum))
    /\ pc' = "mode_wired"
    /\ UNCHANGED <<discoveryVars, modeEnum, pollVars, commandVars, tokenVars>>

(***************************************************************************)
(* The poll loop of app.ts: fetchAndPublish for every device, then sleep   *)
(***************************************************************************)
\* one feature of a getFeatures answer
PolledFeature(path, isEnabled, timestamp, properties) ==
    [feature |-> path, isEnabled |-> isEnabled, timestamp |-> timestamp,
     properties |-> properties]

\* what the vendor can hold for the devices: the outside temperature and the
\* pressure change their value, or their timestamp alone; the only feature of
\* the second device is enabled or not
ApiStates ==
    { << << PolledFeature("heating.sensors.temperature.outside", TRUE, a[1],
                          <<Prop("value", "number", NumV(a[2]), "celsius")>>),
            PolledFeature("heating.sensors.pressure.supply", TRUE, b[1],
                          <<Prop("value", "number", NumV(b[2]), "bar")>>),
            PolledFeature("heating.boiler.serial", TRUE, "t1", <<>>) >>,
         << PolledFeature("heating.dhw.temperature.main", c, "t1",
                          <<Prop("value", "number", NumV(50), "celsius")>>) >> >> :
        a \in {<<"t1", 5>>, <<"t2", 5>>, <<"t2", 6>>, <<"t3", 5>>},
        b \in {<<"t1", 2>>, <<"t2", 3>>, <<"t3", 2>>},
        c \in BOOLEAN }

\* the timestamps of the vendor, from the earliest to the latest
Timestamps == <<"t1", "t2", "t3">>

\* the vendor stamps a feature anew whenever it changes its data
laterData(old, new) ==
    \/ old.timestamp = new.timestamp /\ old.properties = new.properties
    \/ \E i, j \in 1..Len(Timestamps) :
          i < j /\ Timestamps[i] = old.timestamp /\ Timestamps[j] = new.timestamp

\* the devices of installations.data, by their position
Devices == {1, 2}

\* the topic of a feature of a device
featureTopic(d, path) ==
    "viessmann/installations/1/gateways/gw/devices/" \o ToString(d - 1)
        \o "/features/" \o path

Topics ==
    { featureTopic(d, path) :
        d \in Devices,
        path \in {"heating.sensors.temperature.outside", "heating.sensors.pressure.supply",
                  "heating.boiler.serial", "heating.dhw.temperature.main"} }

\* JSON.stringify of the properties, in their order
RECURSIVE stringifyProperties(_)
stringifyProperties(properties) ==
    IF properties = <<>> THEN ""
    ELSE "\"" \o Head(properties).key \o "\":{\"type\":\"" \o Head(properties).type
            \o "\",\"value\":" \o ToString(Head(properties).value.n)
            \o ",\"unit\":\"" \o Head(properties).unit \o "\"}"
            \o (IF Tail(properties) = <<>> THEN "" ELSE ",")
            \o stringifyProperties(Tail(properties))

\* JSON.stringify({ timestamp, properties })
stringify(data) ==
    "{\"timestamp\":\"" \o data.timestamp \o "\",\"properties\":{"
        \o stringifyProperties(data.properties) \o "}}"

\* a faulty variant that never finds two data equal
isEqualNever(a, b) == FALSE

\* isEqual of two data that are not the same object and not null
isEqual(a, b) == stringify(a) = stringify(b)

\* a faulty variant that finds no data point changed
changedFeaturesNone(d, answer, previous) == <<>>

\* the changed data points of an answer: enabled, with properties, and new or
\* different from what previousMap holds for the topic
changedFeatures(d, answer, previous) ==
    LET mapped == [i \in 1..Len(answer) |->
                      [topic |-> featureTopic(d, answer[i].feature),
                       isEnabled |-> answer[i].isEnabled,
                       data |-> [timestamp |-> answer[i].timestamp,
                                 properties |-> answer[i].properties]]]
        kept == SelectSeq(mapped, LAMBDA f :
                    /\ f.isEnabled /\ f.data.properties # <<>>
                    /\ \/ previous[f.topic] = <<>>
                       \/ ~isEqual(previous[f.topic][1], f.data))
    IN  [i \in 1..Len(kept) |-> [topic |-> kept[i].topic, data |-> kept[i].data]]

\* previousMap.set(topic, data) for every data point of the call
RECURSIVE recordAll(_, _)
recordAll(previous, points) ==
    IF points = <<>> THEN previous
    ELSE recordAll([previous EXCEPT ![Head(points).topic] = <<Head(points).data>>],
                   Tail(points))

InitPoll ==
    /\ pc = "poll_fetch"
    /\ discoveryIdle
    /\ modeIdle
    /\ commandIdle
    /\ tokenIdle
    /\ apiData \in ApiStates
    /\ settled = FALSE
    /\ cur = 1
    /\ changedData = <<>>
    /\ sendAt = 0
    /\ previousMap = [t \in Topics |-> <<>>]
    /\ delivered = [t \in Topics |-> <<>>]

\* a faulty variant of the iteration that ends after any device
followingDeviceNone(d) == 0

\* for (const device of gateway.devices): the device after d, 0 after the last
followingDevice(d) == IF d + 1 \in Devices THEN d + 1 ELSE 0

\* the loop goes on with the next device, or sleeps after the last one
nextDevice ==
    /\ cur' = followingDevice(cur)
    /\ pc' = IF followingDevice(cur) # 0 THEN "poll_fetch" ELSE "poll_sleep"
    /\ changedData' = <<>>
    /\ sendAt' = 0

\* api.getFeatures answers; the changed data points are selected
Fetch ==
    /\ pc = "poll_fetch"
    /\ changedData' = changedFeatures(cur, apiData[cur], previousMap)
    /\ sendAt' = 1
    /\ pc' = "poll_publish"
    /\ UNCHANGED <<discoveryVars, modeVars, commandVars, tokenVars, apiData, settled, cur,
                   previousMap, delivered>>

\* api.getFeatures rejects; the catch of the loop logs it
FetchFails ==
    /\ pc = "poll_fetch"
    /\ ~settled
    /\ nextDevice
    /\ UNCHANGED <<discoveryVars, modeVars, commandVars, tokenVars, apiData, settled,
                   previousMap, delivered>>

\* publisher.publish of the next data point resolves
Publish ==
    /\ pc = "poll_publish"
    /\ sendAt \in 1..Len(changedData)
    /\ delivered' = [delivered EXCEPT ![changedData[sendAt].topic] =
                        <<changedData[sendAt].data>>]
    /\ sendAt' = sendAt + 1
    /\ UNCHANGED <<pc, discoveryVars, modeVars, commandVars, tokenVars, apiData, settled, cur,
                   changedData, previousMap>>

\* publisher.publish of the next data point rejects; the call ends there
PublishFails ==
    /\ pc = "poll_publish"
    /\ sendAt \in 1..Len(changedData)
    /\ ~settled
    /\ nextDevice
    /\ UNCHANGED <<discoveryVars, modeVars, commandVars, tokenVars, apiData, settled,
                   previousMap, delivered>>

\* every data point is published: previousMap takes them, the call returns
RecordPublished ==
    /\ pc = "poll_publish"
    /\ sendAt > Len(changedData)
    /\ previousMap' = recordAll(previousMap, changedData)
    /\ nextDevice
    /\ UNCHANGED <<discoveryVars, modeVars, commandVars, tokenVars, apiData, settled, delivered>>

\* sleep(sleepInterval), then the next cycle
Sleep ==
    /\ pc = "poll_sleep"
    /\ pc' = "poll_fetch"
    /\ cur' = 1
    /\ UNCHANGED <<discoveryVars, modeVars, commandVars, tokenVars, apiData, settled,
                   changedData, sendAt, previousMap, delivered>>

\* the vendor's data change while the loop sleeps
VendorChange ==
    /\ pc = "poll_sleep"
    /\ ~settled
    /\ apiData' \in ApiStates \ {apiData}
    /\ \A d \in Devices : \A i \in 1..Len(apiData[d]) :
          laterData(apiData[d][i], apiData'[d][i])
    /\ UNCHANGED <<pc, discoveryVars, modeVars, commandVars, tokenVars, settled, cur,
                   changedData, sendAt, previousMap, delivered>>

\* from here on the API answers, the broker accepts and the data rest
Settle ==
    /\ pc = "poll_sleep"
    /\ ~settled
    /\ settled' = TRUE
    /\ UNCHANGED <<pc, discoveryVars, modeVars, commandVars, tokenVars, apiData, cur,
                   changedData, sendAt, previousMap, delivered>>

\* the steps of the poll loop itself
PollStep == Fetch \/ Publish \/ RecordPublished \/ Sleep

(***************************************************************************)
(* The command subscriber of commands.ts                                   *)
(***************************************************************************)
\* the value of a string of decimal digits
RECURSIVE digitsValue(_)
digitsValue(s) ==
    IF s = "" THEN 0
    ELSE digitsValue(SubSeq(s, 1, Len(s) - 1)) * 10
            + ((CHOOSE i \in 1..10 : CharAt(DigitChars, i) = CharAt(s, Len(s))) - 1)

\* an optional sign before decimal digits
isSignedDigits(s, signs) ==
    IF s # "" /\ CharAt(s, 1) \in signs
    THEN isNumeric(SubSeq(s, 2, Len(s)))
    ELSE isNumeric(s)

signedValue(s) ==
    IF CharAt(s, 1) = "-" THEN 0 - digitsValue(SubSeq(s, 2, Len(s)))
    ELSE IF CharAt(s, 1) = "+" THEN digitsValue(SubSeq(s, 2, Len(s)))
    ELSE digitsValue(s)

\* Number.isNaN(Number(s)) for a string of whole numbers, blanks or other text
NumberIsNaN(s) == trim(s) # "" /\ ~isSignedDigits(trim(s), {"-", "+"})

\* Number(s), when it is a number
NumberOf(s) == IF trim(s) = "" THEN 0 ELSE signedValue(trim(s))

\* whether the text after the sign does not begin with a digit
noLeadingDigit(u) == u = "" \/ ~IsDigit(CharAt(u, 1))

\* the text after an optional sign
afterSign(t) ==
    IF t # "" /\ CharAt(t, 1) \in {"-", "+"} THEN SubSeq(t, 2, Len(t)) ELSE t

\* Number.isNaN(Number.parseInt(s, 10))
parseIntIsNaN(s) == noLeadingDigit(afterSign(trimStart(s)))

\* xs.filter(Boolean) for an array of strings
filterBoolean(xs) == SelectSeq(xs, LAMBDA x : x # "")

\* rest[i], undefined past the end
segmentAt(rest, i) == IF i + 1 <= Len(rest) THEN rest[i + 1] ELSE Undef

\* parseCommandTopic on the segments after the base topic
parseRest(rest) ==
    IF \/ segmentAt(rest, 0) # "installations"
       \/ segmentAt(rest, 2) # "gateways"
       \/ segmentAt(rest, 4) # "devices"
       \/ segmentAt(rest, 6) # "features"
       \/ segmentAt(rest, 8) # "commands"
       \/ segmentAt(rest, 10) # "set"
    THEN <<>>
    ELSE IF parseIntIsNaN(segmentAt(rest, 1)) THEN <<>>
    ELSE << [installationId |-> segmentAt(rest, 1), gatewayId |-> segmentAt(rest, 3),
             deviceId |-> segmentAt(rest, 5), featurePath |-> segmentAt(rest, 7),
             commandName |-> segmentAt(rest, 9)] >>

\* parseCommandTopic on the segments of the base topic and of the topic
parseSegments(baseSegments, segments) ==
    IF Len(segments) < Len(baseSegments) + 10 THEN <<>>
    ELSE IF \E i \in 1..Len(baseSegments) : segments[i] # baseSegments[i] THEN <<>>
    ELSE parseRest(SubSeq(segments, Len(baseSegments) + 1, Len(segments)))

\* CommandSubscriber.parseCommandTopic: <<>> for null
parseCommandTopic(topic) ==
    parseSegments(filterBoolean(split(baseTopic, "/")), filterBoolean(split(topic, "/")))

\* JSON.parse of a text without brackets: <<value>>, or <<>> when it throws
jsonScalar(text) ==
    IF text = "null" THEN <<NullV>>
    ELSE IF text = "true" THEN <<BoolV(TRUE)>>
    ELSE IF text = "false" THEN <<BoolV(FALSE)>>
    ELSE IF isSignedDigits(text, {"-"})
            /\ (Len(text) = 1 \/ CharAt(text, IF CharAt(text, 1) = "-" THEN 2 ELSE 1) # "0")
         THEN <<NumV(signedValue(text))>>
    ELSE IF /\ Len(text) >= 2
            /\ CharAt(text, 1) = "\""
            /\ CharAt(text, Len(text)) = "\""
            /\ ~includes(SubSeq(text, 2, Len(text) - 1), "\"")
         THEN <<StrV(SubSeq(text, 2, Len(text) - 1))>>
    ELSE <<>>

\* a member of a JSON object from its parsed key and value
jsonEntry(key, v) ==
    IF key = <<>> \/ v = <<>> THEN <<>>
    ELSE IF key[1].t # "string" THEN <<>>
    ELSE << <<[key |-> key[1].s, v |-> v[1]]>> >>

\* a member of a JSON object whose value is a scalar: << <<entry>> >>, or <<>>
\* when JSON.parse throws
jsonMember(pair, colon) ==
    IF colon = 0 THEN <<>>
    ELSE jsonEntry(jsonScalar(trim(SubSeq(pair, 1, colon - 1))),
                   jsonScalar(trim(SubSeq(pair, colon + 1, Len(pair)))))

\* what was parsed first, before what was parsed of the others
prepend(first, others) ==
    IF first = <<>> \/ others = <<>> THEN <<>> ELSE << first[1] \o others[1] >>

\* the members of a JSON object whose values are scalars: <<entries>>, or <<>>
\* when JSON.parse throws
RECURSIVE jsonMembers(_)
jsonMembers(texts) ==
    IF texts = <<>> THEN << <<>> >>
    ELSE prepend(jsonMember(Head(texts), indexOf(Head(texts), ":")),
                 jsonMembers(Tail(texts)))

\* an element of a JSON array of scalars
jsonElement(v) == IF v = <<>> THEN <<>> ELSE << <<v[1]>> >>

\* the elements of a JSON array of scalars
RECURSIVE jsonElements(_)
jsonElements(texts) ==
    IF texts = <<>> THEN << <<>> >>
    ELSE prepend(jsonElement(jsonScalar(trim(Head(texts)))), jsonElements(Tail(texts)))

\* the object of the members parsed
objectOf(members) == IF members = <<>> THEN <<>> ELSE <<ObjT(members[1])>>

\* the array of the elements parsed
arrayOf(elements) == IF elements = <<>> THEN <<>> ELSE <<ArrV(elements[1])>>

\* JSON.parse of the text between braces
jsonObject(inner) ==
    IF inner = "" THEN <<ObjT(<<>>)>> ELSE objectOf(jsonMembers(split(inner, ",")))

\* JSON.parse of the text between square brackets
jsonArray(inner) ==
    IF inner = "" THEN <<ArrV(<<>>)>> ELSE arrayOf(jsonElements(split(inner, ",")))

\* a text that opens and closes with the brackets given
bracketed(text, open, close) ==
    Len(text) >= 2 /\ CharAt(text, 1) = open /\ CharAt(text, Len(text)) = close

\* JSON.parse for scalars and for objects and arrays of scalars: <<value>>, or
\* <<>> when it throws
JSONparse(text) ==
    IF bracketed(text, "{", "}") THEN jsonObject(trim(SubSeq(text, 2, Len(text) - 1)))
    ELSE IF bracketed(text, "[", "]") THEN jsonArray(trim(SubSeq(text, 2, Len(text) - 1)))
    ELSE jsonScalar(text)

\* parsePayload on the trimmed text and what JSON.parse made of it
payloadOf(trimmed, json) ==
    IF Len(trimmed) = 0 THEN NullV
    ELSE IF json # <<>> THEN json[1]
    ELSE IF trimmed = "true" THEN BoolV(TRUE)
    ELSE IF trimmed = "false" THEN BoolV(FALSE)
    ELSE IF ~NumberIsNaN(trimmed) THEN NumV(NumberOf(trimmed))
    ELSE StrV(trimmed)

\* parsePayload on the trimmed text
parseTrimmed(trimmed) == payloadOf(trimmed, JSONparse(trimmed))

\* CommandSubscriber.parsePayload
parsePayload(text) == parseTrimmed(trim(text))

\* value && typeof value === "object" && !Array.isArray(value)
isPlainObject(value) == value.t = "object"

\* CommandSubscriber.coerceValue: { value } or { error }
coerceValue(parameter, value) ==
    LET ok(v) == [error |-> FALSE, value |-> v]
        fails == [error |-> TRUE, value |-> UndefV]
    IN  IF parameter.type = "number"
        THEN IF value.t = "number" THEN ok(value)
             ELSE IF value.t = "string" /\ Len(value.s) > 0 /\ ~NumberIsNaN(value.s)
             THEN ok(NumV(NumberOf(value.s)))
             ELSE fails
        ELSE IF parameter.type = "boolean"
        THEN IF value.t = "boolean" THEN ok(value)
             ELSE IF value.t = "string" /\ value.s = "true" THEN ok(BoolV(TRUE))
             ELSE IF value.t = "string" /\ value.s = "false" THEN ok(BoolV(FALSE))
             ELSE fails
        ELSE IF parameter.type = "string"
        THEN IF value.t = "string" THEN ok(value) ELSE fails
        ELSE IF parameter.type = "Schedule" \/ value.t \in {"object", "array", "null"}
        THEN IF isPlainObject(value) THEN ok(value) ELSE fails
        ELSE ok(value)

\* CommandSubscriber.validateConstraints with every test passing
validateConstraintsNone(parameter, value) == FALSE

\* CommandSubscriber.validateConstraints: TRUE for an error text, FALSE for null
validateConstraints(parameter, value) ==
    IF parameter.enum # NoList
       /\ ~(value.t = "string" /\ inArray(parameter.enum, value.s))
    THEN TRUE
    ELSE IF value.t = "number"
    THEN IF parameter.min # UndefV /\ value.n < parameter.min.n THEN TRUE
         ELSE IF parameter.max # UndefV /\ value.n > parameter.max.n THEN TRUE
         ELSE IF parameter.stepping # UndefV /\ parameter.stepping.n > 0
         THEN LET base == IF parameter.min # UndefV THEN parameter.min.n ELSE 0
                  offset == value.n - base
                  remainder == (IF offset < 0 THEN 0 - offset ELSE offset)
                                   % parameter.stepping.n
              IN  remainder # 0
         ELSE FALSE
    ELSE FALSE

\* buildParams on one parameter after coercion: { error } or its entry of params
checked(paramDef, coerced) ==
    IF coerced.error THEN [error |-> TRUE, params |-> <<>>]
    ELSE IF validateConstraints(paramDef, coerced.value)
    THEN [error |-> TRUE, params |-> <<>>]
    ELSE [error |-> FALSE, params |-> <<[key |-> paramDef.name, v |-> coerced.value]>>]

\* the loop of buildParams over the parameters left, for an object payload
\* (the same loop without the test of paramDef.required)
RECURSIVE multiParamsLenient(_, _, _)
lenientAfter(one, entries, payload, params) ==
    IF one.error THEN one ELSE multiParamsLenient(entries, payload, params \o one.params)

multiParamsLenient(entries, payload, params) ==
    IF entries = <<>> THEN [error |-> FALSE, params |-> params]
    ELSE IF ~hasEntry(payload, Head(entries).name)
    THEN multiParamsLenient(Tail(entries), payload, params)
    ELSE lenientAfter(checked(Head(entries),
                              coerceValue(Head(entries),
                                          getEntry(payload, Head(entries).name))),
                      Tail(entries), payload, params)

\* the loop of buildParams over the parameters left, for an object payload
RECURSIVE multiParams(_, _, _)
\* the loop after one parameter: it returns at the first error
paramsAfter(one, entries, payload, params) ==
    IF one.error THEN one ELSE multiParams(entries, payload, params \o one.params)

multiParams(entries, payload, params) ==
    IF entries = <<>> THEN [error |-> FALSE, params |-> params]
    ELSE IF ~hasEntry(payload, Head(entries).name)
    THEN IF Head(entries).required THEN [error |-> TRUE, params |-> <<>>]
         ELSE multiParams(Tail(entries), payload, params)
    ELSE paramsAfter(checked(Head(entries),
                             coerceValue(Head(entries),
                                         getEntry(payload, Head(entries).name))),
                     Tail(entries), payload, params)

\* buildParams for a command of one parameter
onlyParam(paramDef, payload) ==
    checked(paramDef,
            coerceValue(paramDef,
                        IF isPlainObject(payload) /\ hasEntry(payload, paramDef.name)
                        THEN getEntry(payload, paramDef.name)
                        ELSE payload))

\* CommandSubscriber.buildParams: { params } or { error }
buildParams(command, payload) ==
    IF Len(command.params) = 0 THEN [error |-> FALSE, params |-> <<>>]
    ELSE IF Len(command.params) = 1 THEN onlyParam(command.params[1], payload)
    ELSE IF ~isPlainObject(payload) THEN [error |-> TRUE, params |-> <<>>]
    ELSE multiParams(command.params, payload, <<>>)

\* feature.commands[commandName]: <<>> when there is none
firstOf(hits) == IF hits = <<>> THEN <<>> ELSE <<hits[1]>>

findCommand(feature, commandName) ==
    firstOf(SelectSeq(feature.commands, LAMBDA c : c.name = commandName))

\* handleMessage once the parameters are built: the call of api.executeCommand
executeCall(parsed, built) ==
    IF built.error THEN <<>>
    ELSE << [featurePath |-> parsed.featurePath,
             commandName |-> parsed.commandName,
             params |-> built.params] >>

\* handleMessage once the command was looked up
forCommand(parsed, payload, command) ==
    IF command = <<>> THEN <<>>
    ELSE IF ~command[1].isExecutable THEN <<>>
    ELSE executeCall(parsed, buildParams(command[1], payload))

\* handleMessage once the feature was looked up in the data answered
forFeature(parsed, payload, data, found) ==
    IF found = 0 THEN <<>>
    ELSE forCommand(parsed, payload, findCommand(data[found], parsed.commandName))

\* handleMessage once the topic and the payload are parsed
forTopic(parsed, payload, data) ==
    IF parsed = <<>> THEN <<>>
    ELSE forFeature(parsed[1], payload, data, findFeature(data, parsed[1].featurePath))

\* CommandSubscriber.handleMessage, once api.getFeatures has answered data:
\* the calls of api.executeCommand it makes
handleMessage(topic, text, data) ==
    forTopic(parseCommandTopic(topic), parsePayload(text), data)

\* the features the vendor API answers to the subscriber; executable: whether
\* the hot water setpoint can be set at the moment
CommandFeatures(executable) ==
    << Feature("heating.dhw.temperature.main", TRUE,
               << Prop("value", "number", NumV(50), "celsius") >>,
               << Cmd("setTargetTemperature", executable,
                      <<NumParam("temperature", 10, 60, 5)>>) >>),
       Feature("heating.circuits.0.operating.modes.active", TRUE,
               << Prop("value", "string", StrV("heating"), Undef) >>,
               << Cmd("setMode", TRUE,
                      << Param("mode", "string", TRUE, UndefV, UndefV, UndefV,
                               <<"standby", "heating">>) >>) >>),
       Feature("heating.circuits.0.heating.curve", TRUE,
               << Prop("shift", "number", NumV(0), Undef),
                  Prop("slope", "number", NumV(14), Undef) >>,
               << Cmd("setCurve", TRUE,
                      << NumParam("slope", 2, 35, 1),
                         NumParam("shift", 0 - 13, 40, 1) >>) >>),
       Feature("heating.circuits.0.operating.programs.holiday", TRUE,
               << Prop("active", "boolean", BoolV(FALSE), Undef) >>,
               << Cmd("schedule", TRUE,
                      << Param("start", "string", TRUE, UndefV, UndefV, UndefV, NoList),
                         Param("end", "string", FALSE, UndefV, UndefV, UndefV, NoList) >>),
                  Cmd("unschedule", TRUE, <<>>) >>) >>

\* the topics of the messages the broker delivers
MessageTopics ==
    { generateCommandTopic("heating.dhw.temperature.main", "setTargetTemperature"),
      generateCommandTopic("heating.circuits.0.operating.modes.active", "setMode"),
      generateCommandTopic("heating.circuits.0.heating.curve", "setCurve"),
      generateCommandTopic("heating.circuits.0.operating.programs.holiday", "schedule"),
      generateCommandTopic("heating.circuits.0.operating.programs.holiday", "unschedule"),
      generateCommandTopic("heating.solar.pumps.circuit", "activate"),
      generateCommandTopic("heating.dhw.temperature.main", "activate"),
      stateTopic("heating.dhw.temperature.main") \o "/commands/setTargetTemperature/get" }

\* the payloads of the messages the broker delivers
PayloadTexts ==
    { "", "20", "22", "65", "5", "\"20\"", "\" \"", "standby", "\"cooling\"", "true",
      "[20]", "{\"temperature\": 20}", "{\"temperature\": 22}",
      "{\"slope\": 14, \"shift\": 0}", "{\"slope\": \"14\", \"shift\": 50}",
      "{\"slope\": 14}", "{\"start\": \"2026-01-01\", \"end\": \"2026-01-08\"}",
      "{\"start\": \"2026-01-01\"}", "{\"end\": \"2026-01-08\"}", "{}" }

InitCommand ==
    /\ pc = "command"
    /\ discoveryIdle
    /\ modeIdle
    /\ pollIdle
    /\ tokenIdle
    /\ messageTopic \in MessageTopics
    /\ payloadText \in PayloadTexts
    /\ fresh \in {CommandFeatures(TRUE), CommandFeatures(FALSE)}
    /\ executed = <<>>

\* the message handler with api.getFeatures answering the fresh list
HandleMessage ==
    /\ pc = "command"
    /\ executed' = executed \o handleMessage(messageTopic, payloadText, fresh)
    /\ pc' = "handled"
    /\ UNCHANGED <<discoveryVars, modeVars, pollVars, tokenVars,
                   messageTopic, payloadText, fresh>>

\* the message handler with api.getFeatures rejecting: the catch logs it
GetFeaturesFails ==
    /\ pc = "command"
    /\ parseCommandTopic(messageTopic) # <<>>
    /\ pc' = "handled"
    /\ UNCHANGED <<discoveryVars, modeVars, pollVars, tokenVars, commandVars>>

(***************************************************************************)
(* ViessmannApi.ensureToken, called by the poll loop and by the command    *)
(* subscriber through api.getFeatures.  The code between two awaits runs   *)
(* without interruption, and a continuation whose promise has settled runs *)
(* before the next timer, message or network answer is handled.            *)
(***************************************************************************)
\* the callers of api.getFeatures: fetchAndPublish and handleMessage
Callers == <<"fetchAndPublish", "handleMessage">>

\* a promise of a token: pending, resolved with a token, or rejected
TokenPromise(kind, state, expired, refreshToken) ==
    [kind |-> kind, state |-> state, expired |-> expired, refreshToken |-> refreshToken]

\* the promise this.login() or token.refresh() returns: the new token is not
\* expired and has a refresh token when the old one had
started(kind, refreshToken) == TokenPromise(kind, "pending", FALSE, refreshToken)

\* a caller that is not in ensureToken
idleCaller == [at |-> "idle", awaiting |-> 0, result |-> 0]

\* what this.token holds when the first call arrives: null, a rejected login,
\* or a token, expired or not, with a refresh token or without
CachedTokens ==
    { <<>>, <<TokenPromise("cached", "rejected", FALSE, FALSE)>> }
    \cup { <<TokenPromise("cached", "resolved", e, r)>> : e \in BOOLEAN, r \in BOOLEAN }

InitToken ==
    /\ pc = "token"
    /\ discoveryIdle
    /\ modeIdle
    /\ pollIdle
    /\ commandIdle
    /\ promises \in CachedTokens
    /\ token = Len(promises)
    /\ callers = <<idleCaller, idleCaller>>

\* the continuation of caller c can run: the promise it awaits has settled
ready(c) ==
    /\ callers[c].at \in {"await94", "await102"}
    /\ promises[callers[c].awaiting].state # "pending"

\* no continuation is waiting to run
microtasksDone == \A c \in 1..Len(callers) : ~ready(c)

\* lines 92-94 and 109-110: a caller enters ensureToken; with a cached promise
\* it awaits it, without one it logs in and returns the promise of the login
EnterEnsureToken(c) ==
    /\ pc = "token"
    /\ microtasksDone
    /\ callers[c].at = "idle"
    /\ IF token # 0
       THEN /\ callers' = [callers EXCEPT ![c] = [at |-> "await94", awaiting |-> token,
                                                  result |-> 0]]
            /\ UNCHANGED <<token, promises>>
       ELSE /\ promises' = Append(promises, started("login", FALSE))
            /\ token' = Len(promises) + 1
            /\ callers' = [callers EXCEPT ![c] = [at |-> "returned", awaiting |-> 0,
                                                  result |-> Len(promises) + 1]]
    /\ UNCHANGED <<pc, discoveryVars, modeVars, pollVars, commandVars>>

\* lines 94-110: the awaited promise has settled.  A token that is not expired
\* is returned; an expired one is refreshed, or replaced by a login when it
\* has no refresh token, and the new promise is awaited; a rejection is
\* caught and followed by a login
ResumeAfterToken(c) ==
    /\ pc = "token"
    /\ callers[c].at = "await94"
    /\ ready(c)
    /\ LET awaited == promises[callers[c].awaiting]
       IN  IF awaited.state = "rejected"
           THEN /\ promises' = Append(promises, started("login", FALSE))
                /\ token' = Len(promises) + 1
                /\ callers' = [callers EXCEPT ![c] = [at |-> "returned", awaiting |-> 0,
                                                      result |-> Len(promises) + 1]]
           ELSE IF awaited.expired
           THEN /\ promises' = Append(promises,
                                  IF awaited.refreshToken THEN started("refresh", TRUE)
                                  ELSE started("login", FALSE))
                /\ token' = Len(promises) + 1
                /\ callers' = [callers EXCEPT ![c] = [at |-> "await102",
                                                      awaiting |-> Len(promises) + 1,
                                                      result |-> 0]]
           ELSE /\ callers' = [callers EXCEPT ![c] = [at |-> "returned", awaiting |-> 0,
                                                      result |-> callers[c].awaiting]]
                /\ UNCHANGED <<token, promises>>
    /\ UNCHANGED <<pc, discoveryVars, modeVars, pollVars, commandVars>>

\* lines 102-110: the refresh or login started at line 97 or 100 has settled;
\* its token is returned, its rejection is caught and followed by a login
ResumeAfterRefresh(c) ==
    /\ pc = "token"
    /\ callers[c].at = "await102"
    /\ ready(c)
    /\ IF promises[callers[c].awaiting].state = "rejected"
       THEN /\ promises' = Append(promises, started("login", FALSE))
            /\ token' = Len(promises) + 1
            /\ callers' = [callers EXCEPT ![c] = [at |-> "returned", awaiting |-> 0,
                                                  result |-> Len(promises) + 1]]
       ELSE /\ callers' = [callers EXCEPT ![c] = [at |-> "returned", awaiting |-> 0,
                                                  result |-> callers[c].awaiting]]
            /\ UNCHANGED <<token, promises>>
    /\ UNCHANGED <<pc, discoveryVars, modeVars, pollVars, commandVars>>

\* the vendor answers a refresh or a login with a token
TokenGranted(p) ==
    /\ pc = "token"
    /\ microtasksDone
    /\ promises[p].state = "pending"
    /\ promises' = [promises EXCEPT ![p].state = "resolved"]
    /\ UNCHANGED <<pc, discoveryVars, modeVars, pollVars, commandVars, token, callers>>

\* the vendor rejects a refresh or a login, or the request fails
TokenRefused(p) ==
    /\ pc = "token"
    /\ microtasksDone
    /\ promises[p].state = "pending"
    /\ promises' = [promises EXCEPT ![p].state = "rejected"]
    /\ UNCHANGED <<pc, discoveryVars, modeVars, pollVars, commandVars, token, callers>>

Init ==
    \/ InitSynth
    \/ InitUnit
    \/ InitFactory
    \/ InitStore
    \/ InitMode
    \/ InitPoll
    \/ InitCommand
    \/ InitToken

Next ==
    \/ DecoratorPass
    \/ EnhancePass
    \/ DevicePass
    \/ AutoPass
    \/ CommandPass
    \/ ClimatePass
    \/ ReturnDocument
    \/ CallAgain
    \/ NormalizeUnitCall
    \/ CreateDevice
    \/ GetPropertyValue
    \/ WireClimate
    \/ Fetch
    \/ FetchFails
    \/ Publish
    \/ PublishFails
    \/ RecordPublished
    \/ Sleep
    \/ VendorChange
    \/ Settle
    \/ HandleMessage
    \/ GetFeaturesFails
    \/ \E c \in 1..Len(callers) : EnterEnsureToken(c)
    \/ \E c \in 1..Len(callers) : ResumeAfterToken(c)
    \/ \E c \in 1..Len(callers) : ResumeAfterRefresh(c)
    \/ \E p \in 1..Len(promises) : TokenGranted(p)
    \/ \E p \in 1..Len(promises) : TokenRefused(p)

Spec == Init /\ [][Next]_vars

\* the poll loop is one async function: each of its awaits, of api.getFeatures,
\* of publisher.publish and of sleep, settles, and the loop then takes its
\* next step
SpecLive == Init /\ [][Next]_vars /\ WF_vars(PollStep)

(***************************************************************************)
(* The returned document                                                   *)
(***************************************************************************)
\* generateDeviceDiscoveryConfig has returned
Returned == pc = "done"

\* the components of the document the current call returned
document == IF run = 2 THEN doc2 ELSE doc1

\* the feature path a component's state_topic names; Null when it has none
featureOf(component) == extractFeaturePath(component.state_topic)

\* the input features of a path
featuresAt(path) == {j \in 1..Len(features) : features[j].feature = path}

\* a feature has an executable command of that name without parameters
hasZeroParamCommand(feature, commandName) ==
    \E k \in 1..Len(feature.commands) :
        /\ feature.commands[k].name = commandName
        /\ feature.commands[k].isExecutable
        /\ feature.commands[k].params = <<>>

\* the circuit id of heating.circuits.<id>.sensors.temperature.room, else Null
roomCircuitId(path) ==
    LET id == SubSeq(path, 18, Len(path) - 25)
    IN  IF /\ path # Null /\ startsWith(path, "heating.circuits.")
           /\ endsWith(path, ".sensors.temperature.room") /\ isNumeric(id)
        THEN id ELSE Null

\* the room-temperature sensors of the document
roomSensors ==
    {i \in 1..Len(document) :
        /\ document[i].c.platform = "sensor"
        /\ roomCircuitId(featureOf(document[i].c)) # Null}

(***************************************************************************)
(* Properties of synthesis                                                 *)
(***************************************************************************)
\* C1: every component of the returned document that carries a state_topic
\* names, after "/features/", a feature of the input list that is enabled.
\* Refuted: the command pass does not look at isEnabled.
C1_StateTopicsNameEnabledFeatures ==
    Returned =>
        \A i \in 1..Len(document) :
            document[i].c.state_topic # Undef =>
                \E j \in featuresAt(featureOf(document[i].c)) : features[j].isEnabled

\* the refuting state: a number control that reads the state of a disabled feature
C1_ControlOfDisabledFeature ==
    /\ Returned
    /\ \E i \in 1..Len(document) :
        /\ document[i].c.platform = "number"
        /\ featureOf(document[i].c) = "heating.dhw.temperature.main"
        /\ \A j \in featuresAt("heating.dhw.temperature.main") : ~features[j].isEnabled

\* C2: no two components stored under different keys of one returned document
\* have the same unique_id.
C2_UniqueIdsDiffer ==
    Returned =>
        \A i, j \in 1..Len(document) :
            document[i].key # document[j].key =>
                document[i].c.unique_id # document[j].c.unique_id

\* a document with components of the decorator, the auto and the command pass
C2_ThreePassesDocument ==
    /\ Returned
    /\ hasKey(document, "outside_temp")
    /\ hasKey(document, "dhw_temperature_hysteresis")
    /\ hasKey(document, "dhw_temperature_hysteresis_sethysteresis_hysteresis")

\* C3: every sensor or binary_sensor emitted for a service-technician feature
\* has entity_category diagnostic and enabled_by_default false.
\* Refuted: the schedule sensor of the command pass is disabled but gets no category.
C3_ServiceSensorsDiagnosticAndDisabled ==
    Returned =>
        \A i \in 1..Len(document) :
            (/\ document[i].c.platform \in {"sensor", "binary_sensor"}
             /\ featureOf(document[i].c) # Null
             /\ isServiceTechnicianFeature(featureOf(document[i].c)))
            => /\ document[i].c.entity_category = "diagnostic"
               /\ document[i].c.enabled_by_default = BoolV(FALSE)

\* the refuting state: the schedule sensor of a service-technician feature
C3_ScheduleSensorWithoutCategory ==
    /\ Returned
    /\ \E i \in 1..Len(document) :
        /\ document[i].c.platform = "sensor"
        /\ isServiceTechnicianFeature(featureOf(document[i].c))
        /\ document[i].c.json_attributes_topic # Undef
        /\ document[i].c.enabled_by_default = BoolV(FALSE)
        /\ document[i].c.entity_category = Undef

\* C4: no sensor or binary_sensor of the returned document has entity_category
\* config, a sensor the command pass enhanced in place with a
\* service-technician command included.
C4_NoConfigSensor ==
    Returned =>
        \A i \in 1..Len(document) :
            document[i].c.platform \in {"sensor", "binary_sensor"} =>
                document[i].c.entity_category # "config"

\* a sensor that gained the command of a service-technician feature in place
C4_SensorEnhancedByServiceCommand ==
    /\ Returned
    /\ \E i \in 1..Len(document) :
        /\ document[i].c.platform = "sensor"
        /\ document[i].c.command_topic =
              generateCommandTopic("heating.dhw.temperature.hysteresis",
                                   "setHysteresisSwitchOnValue")
        /\ document[i].c.enabled_by_default = BoolV(FALSE)
        /\ document[i].c.entity_category = "diagnostic"

circuitOneScenario ==
    LET f == getProperty(features, "heating.circuits.1.operating.modes.active")
    IN  /\ inArray(getAvailableCircuits(features), "1")
        /\ f # 0
        /\ \E k \in 1..Len(features[f].commands) :
              /\ features[f].commands[k].name = "setMode"
              /\ features[f].commands[k].isExecutable
        /\ getModes(features, "1") = <<"standby", "heating">>
        /\ getCurrentDesiredTemperature(features, "1") # NullV

\* C6: in the scenario the document holds exactly one climate component for
\* heating.circuits.1.operating.modes.active and no select for setMode, and the
\* climate's modes contain off and a heating mode.
\* Refuted: the variant-specific pass reads no registration, so no climate exists
\* and the command pass attaches setMode to the auto-detected sensor.
C6_OneClimateNoSelect ==
    (Returned /\ circuitOneScenario) =>
        LET path == "heating.circuits.1.operating.modes.active"
            climates == {i \in 1..Len(document) :
                            /\ document[i].c.platform = "climate"
                            /\ featureOf(document[i].c) = path}
        IN  /\ Cardinality(climates) = 1
            /\ \A i \in 1..Len(document) :
                  ~(/\ document[i].c.platform = "select"
                    /\ document[i].c.command_topic = generateCommandTopic(path, "setMode"))
            /\ \A i \in climates :
                  /\ inArray(document[i].c.modes, "off")
                  /\ inArray(document[i].c.modes, "heat")
                     \/ inArray(document[i].c.modes, "auto")

\* the refuting state: the scenario ends with a sensor that carries setMode
C6_ScenarioWithoutClimate ==
    /\ Returned /\ circuitOneScenario
    /\ \A i \in 1..Len(document) : document[i].c.platform # "climate"
    /\ \E i \in 1..Len(document) :
        /\ document[i].c.platform = "sensor"
        /\ document[i].c.command_topic =
              generateCommandTopic("heating.circuits.1.operating.modes.active", "setMode")

\* C7: the document holds at most as many room-temperature sensors as the circuit
\* list has ids, and none for a circuit whose room-temperature feature has no
\* non-null value property.
\* Refuted: the auto pass emits a sensor for any room-temperature feature that
\* has a value property, a null one and one of an unlisted circuit included.
C7_RoomSensorsWithinCircuits ==
    Returned =>
        /\ Cardinality(roomSensors) <= Len(getAvailableCircuits(features))
        /\ \A i \in roomSensors :
              \E j \in featuresAt(featureOf(document[i].c)) :
                  /\ hasProp(features[j].properties, "value")
                  /\ getProp(features[j].properties, "value").value.t
                        \notin {"undefined", "null"}

\* the refuting state: circuit 1 is listed and its room sensor reads a null value
C7_RoomSensorOfNullValue ==
    /\ Returned
    /\ getAvailableCircuits(features) = <<"1">>
    /\ \E i \in roomSensors :
        /\ roomCircuitId(featureOf(document[i].c)) = "1"
        /\ \A j \in featuresAt(featureOf(document[i].c)) :
              getProp(features[j].properties, "value").value = NullV

\* the key of the button of a zero-parameter command
buttonKey(featurePath, commandName) ==
    toLowerCase(generateComponentKey(featurePath) \o "_" \o commandName)

\* the features whose executable zero-parameter reset the command pass handles
resetFeatures ==
    {j \in 1..Len(features) :
        /\ ~isCircuitContainerFeature(features[j].feature)
        /\ ~isListFeature(features[j].feature)
        /\ hasZeroParamCommand(features[j], "reset")}

\* C8, as the code has it: when no component holds its key yet, the command pass,
\* run to its end,
\* creates a button for an executable zero-parameter reset; the button is
\* disabled with category config when the path has no .schedule or is a
\* service-technician path, and is left enabled otherwise.
C8_ResetButtonByPath ==
    [][CommandPass /\ pc' = "commands" =>
        \A j \in resetFeatures :
            LET path == features[j].feature
                key == buttonKey(path, "reset")
            IN  ~hasKey(components, key) =>
                    /\ hasKey(passOut', key)
                    /\ getKey(passOut', key).platform = "button"
                    /\ getKey(passOut', key).command_topic =
                          generateCommandTopic(path, "reset")
                    /\ IF ~includes(path, ".schedule") \/ isServiceTechnicianFeature(path)
                       THEN /\ getKey(passOut', key).enabled_by_default = BoolV(FALSE)
                            /\ getKey(passOut', key).entity_category = "config"
                       ELSE /\ getKey(passOut', key).enabled_by_default = UndefV
                            /\ getKey(passOut', key).entity_category = Undef]_vars

\* a document with a disabled reset button and an enabled one on a schedule
C8_BothResetButtons ==
    /\ Returned
    /\ hasKey(document, "device_setdefaultvalues_reset")
    /\ getKey(document, "device_setdefaultvalues_reset").enabled_by_default = BoolV(FALSE)
    /\ hasKey(document, "circuits_1_heating_schedule_reset")
    /\ getKey(document, "circuits_1_heating_schedule_reset").enabled_by_default = UndefV

\* C8 as stated: reset off a .schedule path gives a disabled config button, reset
\* on a .schedule path a button that is not disabled.
\* Refuted by a .schedule path that is a service-technician path as well.
C8_ResetButtonByScheduleAlone ==
    Returned =>
        \A j \in resetFeatures :
            LET path == features[j].feature
                key == buttonKey(path, "reset")
            IN  /\ hasKey(document, key)
                /\ getKey(document, key).platform = "button"
                /\ IF ~includes(path, ".schedule")
                   THEN /\ getKey(document, key).enabled_by_default = BoolV(FALSE)
                        /\ getKey(document, key).entity_category = "config"
                   ELSE getKey(document, key).enabled_by_default # BoolV(FALSE)

\* the unit of day of the one gas-consumption feature of the list, else Null
gasDayUnit ==
    LET at == featuresAt("heating.gas.consumption.heating")
        f == features[CHOOSE j \in at : TRUE]
    IN  IF Cardinality(at) = 1 /\ f.isEnabled /\ hasProp(f.properties, "day")
        THEN getProp(f.properties, "day").unit ELSE Null

\* the sensors of the document that read heating.gas.consumption.heating
gasSensors ==
    {i \in 1..Len(document) :
        /\ document[i].c.platform = "sensor"
        /\ featureOf(document[i].c) = "heating.gas.consumption.heating"}

\* C9: on a gas boiler with heating.gas.consumption.heating enabled, the
\* gas-consumption sensor has no energy device_class when day.unit is cubicMeter
\* and has device_class energy with unit kWh when day.unit is kilowattHour.
C9_GasConsumptionClass ==
    (Returned /\ variant = "GazBoiler" /\ gasDayUnit \in {"cubicMeter", "kilowattHour"}) =>
        /\ hasKey(document, "gas_consumption")
        /\ gasSensors = {i \in 1..Len(document) : document[i].key = "gas_consumption"}
        /\ gasDayUnit = "cubicMeter" =>
              getKey(document, "gas_consumption").device_class # "energy"
        /\ gasDayUnit = "kilowattHour" =>
              /\ getKey(document, "gas_consumption").device_class = "energy"
              /\ getKey(document, "gas_consumption").unit_of_measurement = "kWh"

\* a gas boiler whose gas consumption in cubic metres became a sensor in m³
C9_GasBoilerCubicMeter ==
    /\ Returned /\ variant = "GazBoiler" /\ gasDayUnit = "cubicMeter"
    /\ hasKey(document, "gas_consumption")
    /\ getKey(document, "gas_consumption").unit_of_measurement = "m³"
    /\ getKey(document, "gas_consumption").device_class = Undef

\* C10: for class energy normalizeUnit returns absent or a valid energy unit,
\* for class pressure absent or a valid pressure unit; kilowattHour gives kWh
\* and cubicMeter gives absent.
\* Refuted: the energy test accepts every mapped unit that ends in "h".
C10_OnlyValidUnits ==
    pc = "unit_done" =>
        /\ classIn = "energy" =>
              unitOut = Undef \/ inArray(validEnergyUnits, unitOut)
        /\ classIn = "pressure" =>
              unitOut = Undef \/ inArray(validPressureUnits, unitOut)
        /\ (classIn = "energy" /\ unitIn = "kilowattHour") => unitOut = "kWh"
        /\ (classIn = "energy" /\ unitIn = "cubicMeter") => unitOut = Undef

\* the refuting state: hour passes for an energy unit
C10_HourAsEnergy ==
    pc = "unit_done" /\ unitIn = "hour" /\ classIn = "energy" /\ unitOut = "h"

(***************************************************************************)
(* The device factory                                                      *)
(***************************************************************************)
\* createDevice has returned
Created == pc = "created"

\* roles hold both a boiler and a heat-pump marker
bothMarkers == hasRole(roles, "type:boiler") /\ hasRole(roles, "type:heatpump")

\* the entry of deviceTypes that creates the class
ruleOf(creator) ==
    deviceTypes[CHOOSE i \in 1..Len(deviceTypes) : deviceTypes[i].creator = creator]

\* the rule of the class matches the device by role set or by model pattern
ruleMatches(creator) ==
    matchesRole(ruleOf(creator), roles) \/ matchesModel(ruleOf(creator), modelId)

\* C11: classification is total, and a device with neither both role markers nor
\* a match for the fuel-cell, gas-boiler or heat-pump rule is the generic Heating
\* variant.
\* Refuted: the pattern of the hybrid rule matches every model id, so the default
\* after the loop is never reached.
C11_UnmatchedIsGenericHeating ==
    Created =>
        /\ device \in {"HeatingDevice", "GazBoiler", "HeatPump", "FuelCell", "Hybrid"}
        /\ (/\ ~bothMarkers
            /\ ~ruleMatches("FuelCell")
            /\ ~ruleMatches("GazBoiler")
            /\ ~ruleMatches("HeatPump")) => device = "HeatingDevice"

\* the refuting state: an unknown model without roles became a Hybrid
C11_UnknownModelIsHybrid ==
    /\ Created
    /\ modelId = "E3_TCU41_x04"
    /\ roles = <<>>
    /\ device = "Hybrid"

\* the fixed order of the rules
rulePriority == <<"FuelCell", "GazBoiler", "HeatPump", "Hybrid">>

\* C12: without both role markers the device gets the class of the first rule, in
\* the order fuel cell, gas boiler, heat pump, hybrid catch-all, that matches by
\* model pattern or by role set; of several matching rules the earliest wins.
C12_EarliestRuleWins ==
    (Created /\ ~bothMarkers) =>
        \A i \in 1..Len(rulePriority) :
            (/\ ruleMatches(rulePriority[i])
             /\ \A j \in 1..(i - 1) : ~ruleMatches(rulePriority[j]))
                => device = rulePriority[i]

\* a heat-pump model with the boiler role matches two rules and is a gas boiler
C12_BoilerRoleBeforeHeatPumpModel ==
    /\ Created
    /\ modelId = "Vitocal 250-A"
    /\ roles = <<"type:boiler">>
    /\ ruleMatches("GazBoiler") /\ ruleMatches("HeatPump")
    /\ device = "GazBoiler"

(***************************************************************************)
(* The metadata registry                                                   *)
(***************************************************************************)
\* the groups of the read of the variant-specific pass
complexKinds ==
    {"circuitSensors", "circuitClimates", "heatingCurves", "timeBasedSensors",
     "burnerSensors"}

\* the entries of a group that the decorators registered on the classes of the
\* prototype chain of the variant, the most specific class first
registeredInChain(v, kind) ==
    LET chain == prototypeChain(v)
        RECURSIVE from(_)
        from(c) == IF c > Len(chain) THEN <<>>
                   ELSE complexStore(kind, chain[c]) \o from(c + 1)
    IN  from(1)

\* the entry of a member name that the most specific class of the chain registered
mostSpecific(v, kind, name) ==
    LET all == registeredInChain(v, kind)
    IN  all[CHOOSE i \in 1..Len(all) :
                /\ all[i].propertyName = name
                /\ \A j \in 1..(i - 1) : all[j].propertyName # name]

\* C13: the grouped metadata read of an instance returns every circuit-sensor,
\* circuit-climate, heating-curve, time-series and burner entry registered on a
\* prototype of its chain, once per member name, the subtype's entry first.
\* Refuted: the read looks member names up among the own property names of the
\* prototypes, where a decorated declare field leaves none, and only in the
\* store entry of the instance's own prototype.
C13_ReadSeesWholeChain ==
    pc = "device" =>
        \A kind \in complexKinds :
            LET read == getComplexComponentProperties(variant, kind)
                all == registeredInChain(variant, kind)
            IN  /\ \A i \in 1..Len(all) :
                      \E k \in 1..Len(read) :
                          read[k] = mostSpecific(variant, kind, all[i].propertyName)
                /\ \A k, l \in 1..Len(read) :
                      read[k].propertyName = read[l].propertyName => k = l

\* the refuting state: the pass ran on a gas boiler, whose chain registered
\* entries of every group, and read none of them
C13_GasBoilerReadsNothing ==
    /\ pc = "device"
    /\ variant = "GazBoiler"
    /\ \A kind \in complexKinds :
        /\ registeredInChain(variant, kind) # <<>>
        /\ getComplexComponentProperties(variant, kind) = <<>>
    /\ passOut = <<>>

(***************************************************************************)
(* The feature store                                                       *)
(***************************************************************************)
\* the stored features the lookup can yield: stored under the name and enabled
lookedUp ==
    {i \in 1..Len(features) : features[i].feature = valueName /\ features[i].isEnabled}

\* the node k segments below the root of the property tree of the feature, and
\* UndefV where the node above is no keyed structure or lacks the segment
RECURSIVE nodeBelow(_, _, _)
nodeBelow(root, parts, k) ==
    IF k = 0 THEN root
    ELSE LET above == nodeBelow(root, parts, k - 1)
         IN  IF above.t \notin {"object", "array"} THEN UndefV
             ELSE member(above, parts[k])

\* C14: the value of a path in a feature is absent as soon as a segment is
\* missing or the node reached is no keyed structure; otherwise it is the
\* terminal node, unwrapped exactly once when that node is a structure with a
\* value key; the value of a feature from a failed or disabled lookup is absent.
C14_ValueWalk ==
    pc = "value" =>
        IF lookedUp = {} THEN valueOut = NullV
        ELSE LET root == propertiesNode(features[CHOOSE i \in lookedUp : TRUE].properties)
                 parts == split(valuePath, ".")
                 terminal == nodeBelow(root, parts, Len(parts))
             IN  IF \E k \in 1..Len(parts) : nodeBelow(root, parts, k) = UndefV
                 THEN valueOut = NullV
                 ELSE IF terminal.t = "object" /\ hasEntry(terminal, "value")
                 THEN valueOut = getEntry(terminal, "value")
                 ELSE valueOut = terminal

\* a terminal node that wraps a structure which itself has a value key gave that
\* structure, and not the value inside it
C14_UnwrappedOnce ==
    /\ pc = "value"
    /\ valueName = "heating.dhw.schedule"
    /\ valuePath = "entries.value"
    /\ valueOut = ObjT(<< [key |-> "value", v |-> NumV(5)] >>)

(***************************************************************************)
(* Control components                                                      *)
(***************************************************************************)
\* the components of the document that carry a command_topic
controls == {i \in 1..Len(document) : document[i].c.command_topic # Undef}

\* command k of feature j is the one the command_topic of the component names
targets(component, j, k) ==
    component.command_topic =
        generateCommandTopic(features[j].feature, features[j].commands[k].name)

\* C15: every component with a command_topic targets a feature of the input list
\* that is enabled and has a property key, and an executable command of it; a
\* disabled feature yields no control component.
\* Refuted: the command pass skips containers and features without executable
\* commands, and tests neither isEnabled nor the properties.
C15_ControlsOfEligibleFeatures ==
    Returned =>
        \A i \in controls :
            \E j \in 1..Len(features) :
                /\ features[j].isEnabled
                /\ features[j].properties # <<>>
                /\ \E k \in 1..Len(features[j].commands) :
                      /\ features[j].commands[k].isExecutable
                      /\ targets(document[i].c, j, k)

\* the refuting state: a button for the reset of a feature without properties
C15_ButtonOfFeatureWithoutProperties ==
    /\ Returned
    /\ \E i \in controls, j \in 1..Len(features) :
        /\ document[i].c.platform = "button"
        /\ features[j].properties = <<>>
        /\ \A l \in 1..Len(features) : features[l].feature = features[j].feature => l = j
        /\ \E k \in 1..Len(features[j].commands) : targets(document[i].c, j, k)

\* the platforms of the controls the command pass creates
controlPlatforms == {"number", "select", "switch", "button", "text"}

\* the command names reserved to the service technician
denyList ==
    {"setAltitude", "reset", "setOrientation", "setNormalRange", "setHysteresis",
     "setHysteresisSwitchOnValue", "setHysteresisSwitchOffValue", "setMinimumLimit",
     "setMaximumLimit", "setDefaultLimit", "removeController", "removeZigbeeController"}

\* a command of the service technician: by the path of its feature, or by its
\* name, reset on a schedule excepted
serviceOnly(featurePath, commandName) ==
    \/ isServiceTechnicianFeature(featurePath)
    \/ /\ commandName \in denyList
       /\ ~(commandName = "reset" /\ includes(featurePath, ".schedule"))

\* the controls among the components the command pass has created
newControls == {i \in 1..Len(passOut) : passOut[i].c.platform \in controlPlatforms}

\* C16: a control (number, select, switch, button, text) created by the command
\* pass is disabled by default with category config exactly when its feature
\* path is a service-technician path or its command is on the deny-list (reset
\* on a schedule excepted); a control of any other command is left enabled,
\* without a category.
C16_ServiceControlsDisabled ==
    pc = "commands" =>
        \A i \in newControls :
            /\ \E j \in 1..Len(features) : \E k \in 1..Len(features[j].commands) :
                  features[j].commands[k].isExecutable /\ targets(passOut[i].c, j, k)
            /\ \A j \in 1..Len(features) : \A k \in 1..Len(features[j].commands) :
                  targets(passOut[i].c, j, k) =>
                     IF serviceOnly(features[j].feature, features[j].commands[k].name)
                     THEN /\ passOut[i].c.enabled_by_default = BoolV(FALSE)
                          /\ passOut[i].c.entity_category = "config"
                     ELSE /\ passOut[i].c.enabled_by_default = UndefV
                          /\ passOut[i].c.entity_category = Undef

\* the command pass has created a disabled control on a service-technician path
\* for a command that is not on the deny-list, next to an enabled control
C16_ServicePathAndUserControl ==
    /\ pc = "commands"
    /\ \E i \in newControls : \E j \in 1..Len(features) :
         \E k \in 1..Len(features[j].commands) :
            /\ targets(passOut[i].c, j, k)
            /\ isServiceTechnicianFeature(features[j].feature)
            /\ features[j].commands[k].name = "reset"
            /\ includes(features[j].feature, ".schedule")
            /\ passOut[i].c.entity_category = "config"
    /\ \E i \in newControls : \E j \in 1..Len(features) :
         \E k \in 1..Len(features[j].commands) :
            /\ targets(passOut[i].c, j, k)
            /\ ~serviceOnly(features[j].feature, features[j].commands[k].name)
            /\ passOut[i].c.enabled_by_default = UndefV

\* the component is an entity of the feature of that path: its state_topic is
\* the topic of the feature, or its command_topic is one of its command topics
entityOf(component, path) ==
    \/ component.state_topic = stateTopic(path)
    \/ /\ component.command_topic # Undef
       /\ startsWith(component.command_topic, stateTopic(path) \o "/commands/")

\* heating.circuits.{id}, and nothing below it
bareCircuitContainers == {"heating.circuits." \o id : id \in {"0", "1", "2", "3"}}

\* the un-indexed containers of a list of parts
listContainers ==
    {"heating.burners", "heating.circuits", "heating.compressors",
     "device.serial.internalComponents", "fuelCell.errors.raw", "gateway.devices"}

\* C17: no component of the returned document is an entity of a bare circuit
\* container feature or of an un-indexed list container feature.
C17_NoContainerEntities ==
    Returned =>
        \A i \in 1..Len(document) :
            \A path \in bareCircuitContainers \cup listContainers :
                ~entityOf(document[i].c, path)

\* a document returned for a list that holds both kinds of container, each with
\* properties of its own, next to features that did yield components
C17_ContainersInInput ==
    /\ Returned
    /\ document # <<>>
    /\ \E j \in 1..Len(features) :
         /\ features[j].feature \in bareCircuitContainers
         /\ features[j].isEnabled /\ features[j].properties # <<>>
    /\ \E j \in 1..Len(features) :
         /\ features[j].feature \in listContainers
         /\ features[j].isEnabled /\ features[j].properties # <<>>

(***************************************************************************)
(* Templated components                                                    *)
(***************************************************************************)
\* the template with which a component reads its state
stateTemplate(component) ==
    IF component.value_template # Undef THEN component.value_template
    ELSE component.mode_state_template

\* the enabled features of the list that a component reads
backing(component) ==
    {j \in 1..Len(features) :
        features[j].isEnabled /\ stateTopic(features[j].feature) = component.state_topic}

\* the feature has a property that the template of the component reads
readsProperty(component, feature) ==
    \E p \in 1..Len(feature.properties) :
        includes(stateTemplate(component), "properties." \o feature.properties[p].key \o ".")

C19_NeverThrows == pc # "thrown"

\* the refuting state: synthesis ended with a TypeError on a feature that has
\* an executable command with a null parameter definition
C19_ThrownOnNullParameter ==
    /\ pc = "thrown"
    /\ doc1 = <<>>
    /\ \E j \in 1..Len(features) : \E k \in 1..Len(features[j].commands) :
         /\ features[j].commands[k].isExecutable
         /\ Len(features[j].commands[k].params) = 1
         /\ isNullParam(features[j].commands[k].params[1])

(***************************************************************************)
(* Claimed feature paths                                                   *)
(***************************************************************************)
\* the feature paths that back the components of the decorated-method pass, of
\* its enhancement and of the variant-specific pass: what is assembled when the
\* auto-detection starts
backedPaths ==
    {extractFeaturePath(components[k].c.state_topic) : k \in 1..Len(components)}

\* C20: the auto-detection emits no component for a feature path that backs a
\* component of the decorated-method pass or of the variant-specific pass.
C20_ClaimedPathsNotAutoDetected ==
    [][AutoPass =>
        \A i \in 1..Len(passOut') :
            extractFeaturePath(passOut'[i].c.state_topic) \notin backedPaths]_vars

\* the auto-detection ran on a list with an enabled feature that a decorated
\* method had claimed, and emitted a component for another feature only
C20_AutoNextToDecorated ==
    /\ pc = "auto"
    /\ passOut # <<>>
    /\ \E j \in 1..Len(features) :
         /\ features[j].isEnabled /\ features[j].properties # <<>>
         /\ inArray(decoratedFeaturePaths, features[j].feature)
         /\ \E k \in 1..Len(components) :
               /\ components[k].c.state_topic = stateTopic(features[j].feature)
               /\ \A i \in 1..Len(passOut) : passOut[i].key # components[k].key
         /\ \A i \in 1..Len(passOut) :
               passOut[i].c.state_topic # stateTopic(features[j].feature)

(***************************************************************************)
(* Mode commands                                                           *)
(***************************************************************************)
\* the longest prefix of s without a double quote
RECURSIVE upToQuote(_)
upToQuote(s) ==
    IF s = "" \/ CharAt(s, 1) = "\"" THEN ""
    ELSE CharAt(s, 1) \o upToQuote(SubSeq(s, 2, Len(s)))

\* the mode a mode_command_template sends for a mode of Home Assistant: the
\* string its branch for that mode sets, or the mode itself without a branch
renderedMode(template, mode) ==
    LET branch == "mode == \"" \o mode \o "\" %}{% set mode = \""
        i == indexOf(template, branch)
    IN  IF i = 0 THEN mode
        ELSE upToQuote(SubSeq(template, i + Len(branch), Len(template)))

sensorsOf(cs, path) ==
    SelectSeq(cs, LAMBDA e : e.c.platform = "sensor" /\ e.c.state_topic = stateTopic(path))

\* the parameter, by its name or by an alias of the fixed table, names a state
\* property of the feature
matchesProperty(feature, param) ==
    \E name \in {param.name} \cup
                {semanticMatches(param.name)[a] : a \in 1..Len(semanticMatches(param.name))} :
        hasProp(feature.properties, name) /\ hasValue(getProp(feature.properties, name))

\* the executable commands of feature j with a single parameter that matches a
\* state property, the feature being one the command pass handles and one that
\* has a sensor already
enhancing(j) ==
    {k \in 1..Len(features[j].commands) :
        /\ ~isCircuitContainerFeature(features[j].feature)
        /\ ~isListFeature(features[j].feature)
        /\ features[j].commands[k].isExecutable
        /\ Len(features[j].commands[k].params) = 1
        /\ ~isNullParam(features[j].commands[k].params[1])
        /\ features[j].commands[k].params[1].type # "Schedule"
        /\ matchesProperty(features[j], features[j].commands[k].params[1])
        /\ sensorsOf(components, features[j].feature) # <<>>}

\* the topic of command k of feature j
topicOf(j, k) == generateCommandTopic(features[j].feature, features[j].commands[k].name)

\* C22, as the code has it: the command pass, run to its end, creates no
\* component for such a command; the first sensor of the feature has the
\* command_topic of one of these commands, and with it the command_template of
\* the parameter only when the type of the parameter is number.
C22_SensorEnhancedInPlace ==
    [][CommandPass /\ pc' = "commands" =>
        \A j \in 1..Len(features) : \A k \in enhancing(j) :
            LET before == sensorsOf(components, features[j].feature)[1]
                after == getKey(components', before.key)
                param == features[j].commands[k].params[1]
            IN  /\ \A i \in 1..Len(passOut') : passOut'[i].c.command_topic # topicOf(j, k)
                /\ before.c.command_topic = Undef =>
                      \E l \in enhancing(j) : after.command_topic = topicOf(j, l)
                /\ before.c.command_topic = Undef /\ after.command_topic = topicOf(j, k) =>
                      after.command_template =
                         IF param.type = "number"
                         THEN buildSingleParamCommandTemplate(param.name, param.type)
                         ELSE before.c.command_template]_vars

\* C22 as stated: the command_topic and the command_template of the command are
\* attached to the existing sensor, and no component is created for the command.
\* Refuted by a parameter that is not a number: the sensor gains the
\* command_topic alone.
C22_TopicAndTemplateAttached ==
    [][CommandPass /\ pc' = "commands" =>
        \A j \in 1..Len(features) : \A k \in enhancing(j) :
            LET before == sensorsOf(components, features[j].feature)[1]
                after == getKey(components', before.key)
                param == features[j].commands[k].params[1]
            IN  /\ \A i \in 1..Len(passOut') : passOut'[i].c.command_topic # topicOf(j, k)
                /\ before.c.command_topic = Undef /\ after.command_topic = topicOf(j, k) =>
                      after.command_template =
                         buildSingleParamCommandTemplate(param.name, param.type)]_vars

\* the command pass has enhanced a sensor with a number command, topic and
\* template, and another sensor with a string command, topic alone
C22_NumberAndStringEnhanced ==
    /\ pc = "commands"
    /\ \E i \in 1..Len(components) :
         /\ components[i].c.platform = "sensor"
         /\ components[i].c.command_topic =
               generateCommandTopic("heating.dhw.temperature.main", "setTargetTemperature")
         /\ components[i].c.command_template =
               buildSingleParamCommandTemplate("temperature", "number")
    /\ \E i \in 1..Len(components) :
         /\ components[i].c.platform = "sensor"
         /\ components[i].c.command_topic =
               generateCommandTopic("heating.circuits.1.operating.modes.active", "setMode")
         /\ components[i].c.command_template = Undef
    /\ \A i \in 1..Len(passOut) : passOut[i].c.platform # "select"

(***************************************************************************)
(* Change detection of the poll loop                                       *)
(***************************************************************************)
\* the data point the next publish sends
sending == changedData[sendAt]

calledCommand(call) ==
    LET hits == { c \in UNION { { fresh[j].commands[k] : k \in 1..Len(fresh[j].commands) } :
                                  j \in { j \in 1..Len(fresh) :
                                            fresh[j].feature = call.featurePath } } :
                     c.name = call.commandName /\ c.isExecutable }
    IN  IF hits = {} THEN <<>> ELSE <<CHOOSE c \in hits : TRUE>>

\* the value has the type of the parameter and lies within its constraints
satisfies(paramDef, value) ==
    /\ paramDef.type \in {"number", "string", "boolean"} => value.t = paramDef.type
    /\ paramDef.enum # NoList =>
         value.t = "string" /\ \E i \in 1..Len(paramDef.enum) : paramDef.enum[i] = value.s
    /\ value.t = "number" =>
         /\ paramDef.min # UndefV => paramDef.min.n <= value.n
         /\ paramDef.max # UndefV => value.n <= paramDef.max.n
         /\ paramDef.stepping # UndefV /\ paramDef.stepping.n > 0 =>
              \E steps \in -100..100 :
                 value.n = (IF paramDef.min # UndefV THEN paramDef.min.n ELSE 0)
                              + steps * paramDef.stepping.n

\* C24: a call of the vendor API is made for a message only if its topic names
\* a feature and a command of the freshly fetched list, the command is
\* executable, and every parameter value sent has the type of its parameter
\* and keeps its min, max, enum and stepping.
C24_ForwardedOnlyWhenValid ==
    \A i \in 1..Len(executed) :
        LET call == executed[i]
            command == calledCommand(call)
        IN  /\ messageTopic = generateCommandTopic(call.featurePath, call.commandName)
            /\ command # <<>>
            /\ \A p \in 1..Len(call.params) :
                 \E q \in 1..Len(command[1].params) :
                    /\ command[1].params[q].name = call.params[p].key
                    /\ satisfies(command[1].params[q], call.params[p].v)

\* the hot water setpoint sent as the JSON string "20" reached the vendor API
\* as the number 20
C24_SetpointForwarded ==
    /\ pc = "handled"
    /\ payloadText = "\"20\""
    /\ executed = << [featurePath |-> "heating.dhw.temperature.main",
                      commandName |-> "setTargetTemperature",
                      params |-> <<[key |-> "temperature", v |-> NumV(20)]>>] >>

\* the payload text is a JSON object
isObjectText(text) == startsWith(trim(text), "{") /\ endsWith(trim(text), "}")

\* the JSON object of the payload text has the key
namesKey(text, key) == includes(text, "\"" \o key \o "\":")

\* C25: a command with two or more parameters is executed only when the
\* payload is a JSON object that contains every required parameter.
C25_MultiParameterNeedsObject ==
    \A i \in 1..Len(executed) :
        LET command == calledCommand(executed[i])
        IN  command # <<>> /\ Len(command[1].params) >= 2 =>
              /\ isObjectText(payloadText)
              /\ \A q \in 1..Len(command[1].params) :
                   command[1].params[q].required =>
                       namesKey(payloadText, command[1].params[q].name)

\* the holiday program scheduled by an object that holds the required start
\* and leaves out the optional end
C25_RequiredParametersSent ==
    /\ pc = "handled"
    /\ executed # <<>>
    /\ executed[1].commandName = "schedule"
    /\ executed[1].params = <<[key |-> "start", v |-> StrV("2026-01-01")]>>

(***************************************************************************)
(* Units of the energy and pressure components                             *)
(***************************************************************************)
\* C26: every component of the final document with device_class energy has a
\* valid energy unit, and every one with device_class pressure a valid
\* pressure unit.
C26_ValidUnitsInDocument ==
    Returned =>
        \A i \in 1..Len(document) :
            /\ document[i].c.device_class = "energy" =>
                 inArray(validEnergyUnits, document[i].c.unit_of_measurement)
            /\ document[i].c.device_class = "pressure" =>
                 inArray(validPressureUnits, document[i].c.unit_of_measurement)

\* a gas boiler whose gas consumption in watt hours became a sensor of class
\* energy without a unit
C26_EnergyWithoutUnit ==
    /\ Returned /\ variant = "GazBoiler" /\ gasDayUnit = "wattHour"
    /\ hasKey(document, "gas_consumption")
    /\ getKey(document, "gas_consumption").device_class = "energy"
    /\ getKey(document, "gas_consumption").unit_of_measurement = Undef

(***************************************************************************)
(* Component keys                                                          *)
(***************************************************************************)
\* the features the automatic pass makes components of
eligible ==
    { i \in 1..Len(features) :
        /\ features[i].isEnabled
        /\ features[i].properties # <<>>
        /\ ~isCircuitContainerFeature(features[i].feature)
        /\ ~isListFeature(features[i].feature)
        /\ ~inArray(decoratedFeaturePaths, features[i].feature) }

\* a pass of synthesis that ran to its end
SynthesisPass ==
    \/ DecoratorPass
    \/ EnhancePass
    \/ DevicePass
    \/ AutoPass
    \/ CommandPass /\ pc' = "commands"
    \/ ClimatePass

\* C27: within one run no component is overwritten by a component of a
\* different feature or of a later pass: eligible features of distinct paths
\* have distinct keys, and every component of the component set is, after
\* each pass, still there under its key, for its feature and on its platform.
\* Refuted: generateComponentKey drops a leading "heating." and so gives
\* device.variant and heating.device.variant the same key.
C27_NoComponentOverwritten ==
    [][SynthesisPass =>
        /\ pc = "device" =>
              \A i, j \in eligible :
                 features[i].feature # features[j].feature =>
                    generateComponentKey(features[i].feature)
                       # generateComponentKey(features[j].feature)
        /\ \A i \in 1..Len(components) :
              /\ hasKey(components', components[i].key)
              /\ getKey(components', components[i].key).state_topic
                    = components[i].c.state_topic
              /\ getKey(components', components[i].key).platform
                    = components[i].c.platform]_vars

\* the automatic pass has run on a list with device.variant and
\* heating.device.variant, both eligible: the component set holds the key
\* device_variant once, for heating.device.variant, and nothing for
\* device.variant
C27_VariantOverwritten ==
    /\ pc = "auto"
    /\ \E i, j \in eligible :
         /\ features[i].feature = "device.variant"
         /\ features[j].feature = "heating.device.variant"
    /\ hasKey(components, "device_variant")
    /\ getKey(components, "device_variant").state_topic
          = stateTopic("heating.device.variant")
    /\ \A i \in 1..Len(components) :
          components[i].c.state_topic # stateTopic("device.variant")

(***************************************************************************)
(* Failures in the poll loop                                               *)
(***************************************************************************)
\* the poll loop is running
polling == pc \in {"poll_fetch", "poll_publish", "poll_sleep"}

\* the data points of the enabled features with properties the vendor holds
currentData ==
    UNION { { [topic |-> featureTopic(d, apiData[d][i].feature),
               data |-> [timestamp |-> apiData[d][i].timestamp,
                         properties |-> apiData[d][i].properties]] :
                i \in { i \in 1..Len(apiData[d]) :
                          apiData[d][i].isEnabled /\ apiData[d][i].properties # <<>> } } :
            d \in Devices }

\* the broker holds the data of every data point of the vendor
synced == polling /\ \A f \in currentData : delivered[f.topic] = <<f.data>>

\* C28: when a publish fails part-way, previousMap stays as it is, so that a
\* data point of the vendor which the broker has not accepted is never held in
\* previousMap and counts as changed in the next cycle; previousMap takes only
\* data the broker has accepted in the same call; and once the API answers and
\* the broker accepts again, the broker comes to hold every data point.
C28_UnpublishedStaysChanged ==
    /\ [][PublishFails => previousMap' = previousMap]_vars
    /\ [](polling =>
            \A f \in currentData :
               delivered[f.topic] # <<f.data>> => previousMap[f.topic] # <<f.data>>)
    /\ [][polling =>
            \A t \in Topics :
               previousMap'[t] # previousMap[t] => previousMap'[t] = delivered[t]]_vars
    /\ (polling /\ settled) ~> synced

\* the outside temperature reached the broker in a call whose next publish
\* failed; it is not recorded and the next cycle is about to publish it again
C28_SentAgainAfterFailure ==
    /\ pc = "poll_publish"
    /\ cur = 1
    /\ sendAt = 1
    /\ changedData # <<>>
    /\ sending.topic = featureTopic(1, "heating.sensors.temperature.outside")
    /\ delivered[sending.topic] = <<sending.data>>
    /\ previousMap[sending.topic] = <<>>

\* C29: a failed fetch or publish for one device does not stop the loop: the
\* next device of the cycle is polled, or the loop sleeps after the last one,
\* and every device is polled again and again.
C29_LoopSurvivesFailure ==
    /\ [][FetchFails \/ PublishFails =>
            IF cur + 1 \in Devices
            THEN pc' = "poll_fetch" /\ cur' = cur + 1
            ELSE pc' = "poll_sleep"]_vars
    /\ \A d \in Devices : polling ~> (pc = "poll_fetch" /\ cur = d)

\* the second device is polled although no call for the first device has
\* succeeded so far
C29_SecondDeviceAfterFailure ==
    /\ pc = "poll_fetch"
    /\ cur = 2
    /\ \A f \in currentData :
          f.topic = featureTopic(1, "heating.sensors.temperature.outside") =>
              previousMap[f.topic] = <<>>
    /\ previousMap[featureTopic(1, "heating.sensors.pressure.supply")] = <<>>

(***************************************************************************)
(* Concurrent calls of ensureToken                                         *)
(***************************************************************************)
\* the refreshes and logins started so far
startedPromises == { p \in 1..Len(promises) : promises[p].kind # "cached" }

\* the calls found a cached token that was expired
cachedExpired ==
    /\ pc = "token"
    /\ promises # <<>>
    /\ promises[1].kind = "cached"
    /\ promises[1].state = "resolved"
    /\ promises[1].expired

\* C30: when fetchAndPublish and handleMessage call the API while the cached
\* token is expired, at most one refresh or login is started and every caller
\* that has its token has the token of that one.  A login that follows a
\* rejected refresh is not counted against the claim: no two logins and no two
\* refreshes are started, and the callers that returned hold the same promise.
\* Refuted: when the refresh both callers await is rejected, each of them
\* catches the rejection and starts a login of its own.
C30_OneRefreshForAll ==
    cachedExpired =>
        /\ \A p, q \in startedPromises : promises[p].kind = promises[q].kind => p = q
        /\ \A c, d \in 1..Len(callers) :
              callers[c].at = "returned" /\ callers[d].at = "returned" =>
                  callers[c].result = callers[d].result

\* as long as the vendor rejects nothing, one refresh or login is started and
\* every caller that returned has its token
oneRefreshWhenGranted ==
    (cachedExpired /\ \A p \in startedPromises : promises[p].state # "rejected") =>
        /\ Cardinality(startedPromises) <= 1
        /\ \A c \in 1..Len(callers) :
              callers[c].at = "returned" => callers[c].result \in startedPromises

\* the cached token was expired, its refresh was rejected while both callers
\* awaited it, and each caller has started and returned a login of its own
C30_TwoLogins ==
    /\ cachedExpired
    /\ Len(promises) = 4
    /\ promises[2].kind = "refresh" /\ promises[2].state = "rejected"
    /\ promises[3].kind = "login" /\ promises[3].state = "pending"
    /\ promises[4].kind = "login" /\ promises[4].state = "pending"
    /\ callers[1].at = "returned" /\ callers[2].at = "returned"
    /\ callers[1].result # callers[2].result

====
